---------------------------- MODULE Spec2Model ----------------------------
(***************************************************************************)
(* Rusty-Bit: a leech-only BitTorrent client.                              *)
(*                                                                         *)
(* The module holds five state machines over one set of variables:         *)
(*   SpecLayout   Torrent::genereate_piece_mapping, one loop iteration per *)
(*                step, on every small file list and piece length;         *)
(*   SpecInfo     the typed view of the info dictionary (struct Info) and  *)
(*                Torrent::calc_hash;                                      *)
(*   Spec         Torrent::start_download: the start-up probe, the tracker *)
(*                answer, the spawned peer sessions and the final join;    *)
(*   FairSpec     Spec, with the tasks and the join scheduled fairly;      *)
(*   SpecBencode  decode_bencoded_file and recursive_bencode_decoder;      *)
(*   SpecFrame    PeerFrameCodec on a framed stream read in chunks.        *)
(* Each specification keeps the variables of the others at their idle      *)
(* values.                                                                 *)
(***************************************************************************)
EXTENDS Integers, Sequences, FiniteSets, TLC

VARIABLES
    layout,                 \* the frame of genereate_piece_mapping
    info,                   \* a metainfo's info dictionary, its typed view and its hash
    main,                   \* start_download: its position, its result, what it saw at start-up
    disk,                   \* the bytes of each target file
    pieces_to_download,     \* Arc<Mutex<Vec<usize>>>: the missing pieces
    file_handle_mapping,    \* Arc<Mutex<HashMap<String, File>>>: the opened paths, the lock
    sess,                   \* the spawned task of each peer: position and locals
    remote,                 \* what each peer has sent: handshake, choke state, have-set
    sent,                   \* the messages each session has sent after the handshake
    persisted,              \* every slice handed to seek_write, with its piece's digest
    file_data_vec,          \* decode_bencoded_file: the bytes read from the file
    decoder_result,         \* decode_bencoded_file: what recursive_bencode_decoder gave
    src,                    \* PeerFrameCodec: the read buffer of the framed stream
    incoming,               \* the bytes of the peer's stream that have not arrived yet
    wire,                   \* the bytes of the stream that the reads have taken so far
    decoded,                \* what the calls of PeerFrameCodec::decode returned, in order
    dst,                    \* PeerFrameCodec: the write buffer of the framed sink
    encoded                 \* the messages handed to PeerFrameCodec::encode, in order

dlvars == <<main, disk, pieces_to_download, file_handle_mapping, sess, remote,
            sent, persisted>>

\* the variables of the two codecs: the bencode decoder and the frame codec
bvars == <<file_data_vec, decoder_result>>

fvars == <<src, incoming, wire, decoded, dst, encoded>>

codecvars == <<bvars, fvars>>

vars == <<layout, info, dlvars, codecvars>>

----------------------------------------------------------------------------
(* Bounds of the model *)

\* the longest file of a file list
MaxFileLen == 3
\* the most files of a file list
MaxFiles == 3
\* the largest piece length
MaxPieceLen == 4

----------------------------------------------------------------------------
(* Helpers *)

Min(a, b) == IF a <= b THEN a ELSE b

Max(a, b) == IF a >= b THEN a ELSE b

RECURSIVE SumSeq(_)
SumSeq(s) == IF s = <<>> THEN 0 ELSE Head(s) + SumSeq(Tail(s))

\* ceil(a / b)
CeilDiv(a, b) == (a + b - 1) \div b

\* files.iter().map(|file| file.length).sum(), or the single file's length
torrent_data_len_of(files) == SumSeq(files)

\* fold(0, |acc, x| acc + x.length) over a list of segments
RECURSIVE SegLenSum(_)
SegLenSum(segs) ==
    IF segs = <<>> THEN 0 ELSE Head(segs).length + SegLenSum(Tail(segs))

\* the variables of the bencode decoder while another specification runs
BencodeIdle ==
    /\ file_data_vec = <<>>
    /\ decoder_result = [pc |-> "idle"]

\* the variables of the frame codec while another specification runs
FrameIdle ==
    /\ src = <<>>
    /\ incoming = <<>>
    /\ wire = <<>>
    /\ decoded = <<>>
    /\ dst = <<>>
    /\ encoded = <<>>

\* the variables of start_download while another specification runs
DownloadIdle ==
    /\ main = [pc |-> "idle"]
    /\ disk = <<>>
    /\ pieces_to_download = <<>>
    /\ file_handle_mapping = [opened |-> {}, holder |-> 0, poisoned |-> FALSE]
    /\ sess = <<>>
    /\ remote = <<>>
    /\ sent = <<>>
    /\ persisted = {}

----------------------------------------------------------------------------
(* Torrent::genereate_piece_mapping                                        *)
(*                                                                         *)
(* A file list is the sequence of the files' lengths; a file's index in    *)
(* the list stands for its path.  total_pieces_to_download is the number   *)
(* of digests of the manifest.                                             *)

\* the state at the head of the for loop: file_vec built, the first file taken
MapStart(files, piece_length, total_pieces_to_download) ==
    [pc |-> IF Len(files) = 0 THEN "panic" ELSE "for",
     files |-> files,
     piece_length |-> piece_length,
     total_pieces_to_download |-> total_pieces_to_download,
     torrent_data_len |-> torrent_data_len_of(files),
     file_idx |-> 1,
     current_offset |-> 0,
     data_examined |-> 0,
     piece_index |-> 0,
     piece_data_read |-> 0,
     piece_data_to_read |-> 0,
     piece_location_vec |-> <<>>,
     piece_mapping |-> <<>>]

\* current_file_details.length
CurFileLen(st) == st.files[st.file_idx]

\* for piece_index in 0..total_pieces_to_download: the head of one iteration
MapNextPiece(st) ==
    IF st.piece_index >= st.total_pieces_to_download
    THEN [st EXCEPT !.pc = "done"]
    ELSE IF st.torrent_data_len < st.data_examined
    THEN [st EXCEPT !.pc = "panic"]
    ELSE [st EXCEPT !.pc = "while",
                    !.piece_data_read = 0,
                    !.piece_data_to_read =
                        Min(st.piece_length, st.torrent_data_len - st.data_examined),
                    !.piece_location_vec = <<>>]

\* the condition of the if inside the while loop
MapFitsCond(st) ==
    CurFileLen(st) >= st.current_offset + (st.piece_data_to_read - st.piece_data_read)

\* the if branch: the rest of the piece lies in the current file
MapFits(st) ==
    LET data_to_read_in_this_iter == st.piece_data_to_read - st.piece_data_read
    IN [st EXCEPT
          !.piece_location_vec = Append(@, [path |-> st.file_idx,
                                            offset |-> st.current_offset,
                                            length |-> data_to_read_in_this_iter]),
          !.current_offset = @ + data_to_read_in_this_iter,
          !.piece_data_read = @ + data_to_read_in_this_iter,
          !.data_examined = @ + data_to_read_in_this_iter]

\* MapSpillPush with a fault: the segment is pushed but not counted as read
MapSpillPushUncounted(st, data_to_read_in_this_iter) ==
    [st EXCEPT
       !.piece_location_vec = Append(@, [path |-> st.file_idx,
                                         offset |-> st.current_offset,
                                         length |-> data_to_read_in_this_iter]),
       !.data_examined = @ + data_to_read_in_this_iter]

\* the push of the else branch
MapSpillPush(st, data_to_read_in_this_iter) ==
    [st EXCEPT
       !.piece_location_vec = Append(@, [path |-> st.file_idx,
                                         offset |-> st.current_offset,
                                         length |-> data_to_read_in_this_iter]),
       !.piece_data_read = @ + data_to_read_in_this_iter,
       !.data_examined = @ + data_to_read_in_this_iter]

\* MapSpillGuard with a fault: the rest of a file is pushed even when empty
MapSpillGuardAlways(data_to_read_in_this_iter) == TRUE

\* if data_to_read_in_this_iter != 0
MapSpillGuard(data_to_read_in_this_iter) == data_to_read_in_this_iter # 0

\* the else branch: the piece takes the rest of the current file and goes on
\* with the next file
MapSpills(st) ==
    LET data_to_read_in_this_iter == CurFileLen(st) - st.current_offset
        pushed == IF MapSpillGuard(data_to_read_in_this_iter)
                  THEN MapSpillPush(st, data_to_read_in_this_iter)
                  ELSE st
    IN IF data_to_read_in_this_iter < 0
       THEN [st EXCEPT !.pc = "panic"]
       ELSE IF pushed.torrent_data_len # pushed.data_examined
       THEN IF pushed.file_idx >= Len(pushed.files)
            THEN [pushed EXCEPT !.pc = "panic"]     \* file_vec_iter.next().unwrap()
            ELSE [pushed EXCEPT !.file_idx = @ + 1, !.current_offset = 0]
       ELSE [pushed EXCEPT !.current_offset = 0]

\* piece_mapping.insert(piece_index, piece_location_vec); the sequence's
\* element i + 1 is the entry of piece i
MapInsert(st) ==
    [st EXCEPT !.piece_mapping = Append(@, st.piece_location_vec),
               !.piece_index = @ + 1,
               !.pc = "for"]

\* the whole function
RECURSIVE MapRun(_)
MapRun(st) ==
    IF st.pc \in {"done", "panic"} THEN st
    ELSE IF st.pc = "for" THEN MapRun(MapNextPiece(st))
    ELSE IF st.piece_data_read = st.piece_data_to_read THEN MapRun(MapInsert(st))
    ELSE IF MapFitsCond(st) THEN MapRun(MapFits(st))
    ELSE MapRun(MapSpills(st))

\* the value start_download binds to piece_mapping
genereate_piece_mapping(files, piece_length, total_pieces_to_download) ==
    MapRun(MapStart(files, piece_length, total_pieces_to_download)).piece_mapping

\* piece_to_download_len of a session, for a popped piece_index
piece_to_download_len_of(piece_index, piece_length, total_pieces, data_len) ==
    IF piece_index # total_pieces - 1
    THEN piece_length
    ELSE data_len - (piece_length * (total_pieces - 1))

----------------------------------------------------------------------------
(* SpecLayout: genereate_piece_mapping on every file list of at most       *)
(* MaxFiles files of at most MaxFileLen bytes with content, and every      *)
(* piece length up to MaxPieceLen; the manifest holds one digest per       *)
(* piece of the content.                                                   *)

FileLists == UNION {[1..n -> 0..MaxFileLen] : n \in 1..MaxFiles}

\* the file list and piece length of the layout example of the specification
LayoutExample == MapStart(<<5, 15>>, 8, 3)

InitLayout ==
    /\ info = [pc |-> "idle"]
    /\ DownloadIdle
    /\ BencodeIdle
    /\ FrameIdle
    /\ \/ layout = LayoutExample
       \/ \E files \in FileLists, piece_length \in 1..MaxPieceLen :
            /\ torrent_data_len_of(files) > 0
            /\ layout = MapStart(files, piece_length,
                                 CeilDiv(torrent_data_len_of(files), piece_length))

GenMapNextPiece ==
    /\ layout.pc = "for"
    /\ layout' = MapNextPiece(layout)
    /\ UNCHANGED <<info, dlvars, codecvars>>

GenMapFits ==
    /\ layout.pc = "while"
    /\ layout.piece_data_read # layout.piece_data_to_read
    /\ MapFitsCond(layout)
    /\ layout' = MapFits(layout)
    /\ UNCHANGED <<info, dlvars, codecvars>>

GenMapSpills ==
    /\ layout.pc = "while"
    /\ layout.piece_data_read # layout.piece_data_to_read
    /\ ~MapFitsCond(layout)
    /\ layout' = MapSpills(layout)
    /\ UNCHANGED <<info, dlvars, codecvars>>

GenMapInsert ==
    /\ layout.pc = "while"
    /\ layout.piece_data_read = layout.piece_data_to_read
    /\ layout' = MapInsert(layout)
    /\ UNCHANGED <<info, dlvars, codecvars>>

NextLayout ==
    \/ GenMapNextPiece
    \/ GenMapFits
    \/ GenMapSpills
    \/ GenMapInsert

SpecLayout == InitLayout /\ [][NextLayout]_vars

----------------------------------------------------------------------------
(* The reference layout: the ranges of the files, in file-list order, that *)
(* cover the content bytes of one piece.                                   *)

\* the content offset of the first byte of file f
FileStart(files, f) == SumSeq(SubSeq(files, 1, f - 1))

\* the content range [PieceLo, PieceHi) of piece i
PieceLo(i, piece_length) == i * piece_length

PieceHi(i, piece_length, total) == Min((i + 1) * piece_length, total)

RefSegments(files, piece_length, i) ==
    LET total == SumSeq(files)
        lo == PieceLo(i, piece_length)
        hi == PieceHi(i, piece_length, total)
        From(f) == Max(lo, FileStart(files, f))
        To(f) == Min(hi, FileStart(files, f) + files[f])
        Touches(f) == From(f) < To(f)
        touched == SelectSeq([f \in 1..Len(files) |-> f], Touches)
    IN [k \in 1..Len(touched) |->
          [path |-> touched[k],
           offset |-> From(touched[k]) - FileStart(files, touched[k]),
           length |-> To(touched[k]) - From(touched[k])]]

\* the segments of piece_mapping that hold byte o of file f, as (piece, place)
Covering(piece_mapping, f, o) ==
    {pq \in UNION {{<<p, k>> : k \in 1..Len(piece_mapping[p])} :
                    p \in 1..Len(piece_mapping)} :
        LET seg == piece_mapping[pq[1]][pq[2]]
        IN seg.path = f /\ seg.offset <= o /\ o < seg.offset + seg.length}

LayoutDone == layout.pc = "done"

\* C8: for every piece the mapping holds, the sum of its segment lengths is
\* the length a session expects for that piece (piece_length, and for the
\* last piece total - piece_length * (P - 1)); once the mapping is complete
\* it holds every piece and the sums add up to the total content length.
ThmC8_SegmentSumIsExpectedLength ==
    layout.pc \in {"for", "while", "done"} =>
        /\ \A i \in 0..(Len(layout.piece_mapping) - 1) :
              SegLenSum(layout.piece_mapping[i + 1]) =
                  piece_to_download_len_of(i, layout.piece_length,
                                           layout.total_pieces_to_download,
                                           layout.torrent_data_len)
        /\ LayoutDone =>
              /\ Len(layout.piece_mapping) = layout.total_pieces_to_download
              /\ SumSeq([i \in 1..Len(layout.piece_mapping) |->
                            SegLenSum(layout.piece_mapping[i])])
                     = layout.torrent_data_len

\* a finished mapping with a short last piece and a piece that spans files
WitC8_ShortLastPieceAcrossFiles ==
    /\ LayoutDone
    /\ layout.total_pieces_to_download >= 2
    /\ SegLenSum(layout.piece_mapping[layout.total_pieces_to_download])
           < layout.piece_length
    /\ \E i \in 1..Len(layout.piece_mapping) : Len(layout.piece_mapping[i]) >= 2

\* C9: the finished mapping is the reference layout: piece i maps to the
\* ranges, in file-list order, covering content bytes [i * piece_length,
\* min((i + 1) * piece_length, total)); no segment is empty; every byte of
\* every file lies in exactly one segment; and piece length 8 with files of
\* 5 and 15 bytes gives [(a,0,5),(b,0,3)], [(b,3,8)], [(b,11,4)].
ThmC9_LayoutIsReference ==
    LayoutDone =>
        /\ Len(layout.piece_mapping) = layout.total_pieces_to_download
        /\ \A i \in 0..(layout.total_pieces_to_download - 1) :
              /\ layout.piece_mapping[i + 1] =
                     RefSegments(layout.files, layout.piece_length, i)
              /\ \A k \in 1..Len(layout.piece_mapping[i + 1]) :
                     layout.piece_mapping[i + 1][k].length > 0
        /\ \A f \in 1..Len(layout.files) : \A o \in 0..(layout.files[f] - 1) :
              Cardinality(Covering(layout.piece_mapping, f, o)) = 1
        /\ (layout.files = <<5, 15>> /\ layout.piece_length = 8) =>
              layout.piece_mapping =
                  << <<[path |-> 1, offset |-> 0, length |-> 5],
                       [path |-> 2, offset |-> 0, length |-> 3]>>,
                     <<[path |-> 2, offset |-> 3, length |-> 8]>>,
                     <<[path |-> 2, offset |-> 11, length |-> 4]>> >>

\* a finished mapping of a file list with an empty file between content and
\* a non-empty file that ends exactly where a piece ends, with content after
WitC9_EmptyFileAndBoundaryFile ==
    /\ LayoutDone
    /\ \E f \in 1..(Len(layout.files) - 1) :
          /\ layout.files[f] = 0
          /\ 0 < FileStart(layout.files, f)
          /\ FileStart(layout.files, f) < layout.torrent_data_len
    /\ \E f \in 1..(Len(layout.files) - 1) :
          /\ layout.files[f] > 0
          /\ (FileStart(layout.files, f) + layout.files[f]) % layout.piece_length = 0
          /\ FileStart(layout.files, f) + layout.files[f] < layout.torrent_data_len

----------------------------------------------------------------------------
(* Torrent::start_download: the torrent of the model                       *)

\* the peers of the tracker's answer are 1..n for some n up to NumPeers
NumPeers == 2
\* self.info.piece_length
TorrentPieceLength == 4
\* max_request_block_size (2^13 in the source), scaled to the model's pieces
max_request_block_size == 2

\* the lengths of the files of the torrent, in file-list order
TorrentFiles == <<3, 2>>

\* the content the manifest describes, byte by byte; no byte of it is 0
TorrentContent == [k \in 1..SumSeq(TorrentFiles) |-> 1 + (k % 2)]

torrent_data_len == torrent_data_len_of(TorrentFiles)

\* self.info.pieces.0.len()
total_pieces_to_download == CeilDiv(torrent_data_len, TorrentPieceLength)

Pieces == 0..(total_pieces_to_download - 1)

Peers == 1..NumPeers

\* calc_sha1_hash: SHA-1 as a digest that differs whenever the bytes differ
calc_sha1_hash(piece_data) == [sha1 |-> piece_data]

\* the bytes of piece i of the content
ContentOfPiece(i) ==
    SubSeq(TorrentContent, PieceLo(i, TorrentPieceLength) + 1,
           PieceHi(i, TorrentPieceLength, torrent_data_len))

\* self.info.pieces.0: the manifest's digest of each piece
pieces_hash == [i \in Pieces |-> calc_sha1_hash(ContentOfPiece(i))]

\* the layout map start_download builds
piece_mapping ==
    genereate_piece_mapping(TorrentFiles, TorrentPieceLength, total_pieces_to_download)

\* &piece_mapping[&piece_index]
SegmentsOf(piece_index) == piece_mapping[piece_index + 1]

\* the bytes a file holds at [offset, offset + length)
FileBytes(d, path, offset, length) == SubSeq(d[path], offset + 1, offset + length)

RECURSIVE ConcatSegs(_, _)
ConcatSegs(d, segs) ==
    IF segs = <<>> THEN <<>>
    ELSE FileBytes(d, Head(segs).path, Head(segs).offset, Head(segs).length)
         \o ConcatSegs(d, Tail(segs))

\* the bytes of piece i as the disk d holds them, read through the layout map
OnDiskBytes(d, i) == ConcatSegs(d, SegmentsOf(i))

\* WriteAt with a fault: the data goes to the start of the file
WriteAtFileStart(bytes, offset, data) ==
    [k \in 1..Len(bytes) |-> IF k <= Len(data) THEN data[k] ELSE bytes[k]]

\* a file's bytes with data written at offset (FileExt::seek_write, all written)
WriteAt(bytes, offset, data) ==
    [k \in 1..Len(bytes) |->
        IF offset < k /\ k <= offset + Len(data) THEN data[k - offset] ELSE bytes[k]]

\* the disk on which exactly the pieces of good hold their content and the
\* other bytes are the zeros of reserve_space
RECURSIVE DiskWith(_, _)
DiskWith(good, i) ==
    IF i = total_pieces_to_download
    THEN [f \in 1..Len(TorrentFiles) |-> [k \in 1..TorrentFiles[f] |-> 0]]
    ELSE LET rest == DiskWith(good, i + 1)
             segs == SegmentsOf(i)
             data == ContentOfPiece(i)
             Put[n \in 0..Len(segs)] ==
                 IF n = 0 THEN rest
                 ELSE LET seg == segs[n]
                          ptr == SegLenSum(SubSeq(segs, 1, n - 1))
                      IN [Put[n - 1] EXCEPT ![seg.path] =
                             WriteAt(@, seg.offset, SubSeq(data, ptr + 1, ptr + seg.length))]
         IN IF i \in good THEN Put[Len(segs)] ELSE rest

----------------------------------------------------------------------------
(* The typed view of the info dictionary (struct Info, struct TorrentFile, *)
(* enum FileType) and Torrent::calc_hash.                                  *)
(*                                                                         *)
(* A bencoded dictionary is the sequence of its entries in the order of    *)
(* the bytes; an entry is [key, val]; a value is [int |-> n], [str |-> s]  *)
(* or [list |-> dictionaries].  The derived Deserialize of a struct takes  *)
(* the fields it declares and skips every other key; the derived           *)
(* Serialize writes the declared fields, and the bencode serializer emits  *)
(* a dictionary's entries sorted by key.                                   *)

\* the byte order of the keys that occur
KeyRank(k) ==
    CASE k = "files" -> 1
      [] k = "length" -> 2
      [] k = "md5sum" -> 3
      [] k = "name" -> 4
      [] k = "path" -> 5
      [] k = "piece length" -> 6
      [] k = "pieces" -> 7
      [] k = "private" -> 8
      [] k = "source" -> 9

HasKey(d, k) == \E i \in 1..Len(d) : d[i].key = k

ValueOf(d, k) == d[CHOOSE i \in 1..Len(d) : d[i].key = k].val

\* the serializer's dictionary: entries sorted by key on end()
RECURSIVE SortByKey(_)
SortByKey(d) ==
    IF d = <<>> THEN <<>>
    ELSE LET i == CHOOSE i \in 1..Len(d) :
                      \A j \in 1..Len(d) : KeyRank(d[i].key) <= KeyRank(d[j].key)
         IN <<d[i]>> \o SortByKey(SubSeq(d, 1, i - 1) \o SubSeq(d, i + 1, Len(d)))

\* struct TorrentFile { length, path }
TorrentFileAccepts(d) == HasKey(d, "length") /\ HasKey(d, "path")

DeserializeTorrentFile(d) ==
    [length |-> ValueOf(d, "length").int, path |-> ValueOf(d, "path").str]

SerializeTorrentFile(f) ==
    SortByKey(<<[key |-> "length", val |-> [int |-> f.length]],
                [key |-> "path", val |-> [str |-> f.path]]>>)

\* enum FileType, untagged: SingleFile { length } is tried first, then
\* MultiFile { files }
FileTypeAccepts(d) ==
    \/ HasKey(d, "length")
    \/ /\ HasKey(d, "files")
       /\ \A i \in 1..Len(ValueOf(d, "files").list) :
              TorrentFileAccepts(ValueOf(d, "files").list[i])

DeserializeFileType(d) ==
    IF HasKey(d, "length")
    THEN [SingleFile |-> ValueOf(d, "length").int]
    ELSE [MultiFile |->
            [i \in 1..Len(ValueOf(d, "files").list) |->
                DeserializeTorrentFile(ValueOf(d, "files").list[i])]]

\* struct Info { name, piece length, pieces, file_type (flattened) }
InfoAccepts(d) ==
    /\ HasKey(d, "name")
    /\ HasKey(d, "piece length")
    /\ HasKey(d, "pieces")
    /\ FileTypeAccepts(d)

DeserializeInfo(d) ==
    [name |-> ValueOf(d, "name").str,
     piece_length |-> ValueOf(d, "piece length").int,
     pieces |-> ValueOf(d, "pieces").str,
     file_type |-> DeserializeFileType(d)]

\* the entries the flattened file_type adds to the dictionary of Info
SerializeFileType(ft) ==
    IF "SingleFile" \in DOMAIN ft
    THEN <<[key |-> "length", val |-> [int |-> ft.SingleFile]]>>
    ELSE <<[key |-> "files",
            val |-> [list |-> [i \in 1..Len(ft.MultiFile) |->
                                  SerializeTorrentFile(ft.MultiFile[i])]]]>>

\* serde_bencode::to_bytes::<Info>(&self.info)
SerializeInfo(t) ==
    SortByKey(<<[key |-> "name", val |-> [str |-> t.name]],
                [key |-> "piece length", val |-> [int |-> t.piece_length]],
                [key |-> "pieces", val |-> [str |-> t.pieces]]>>
              \o SerializeFileType(t.file_type))

\* SHA-1 of the bytes of a bencoded info dictionary: a digest that differs
\* whenever the bytes differ
Sha1OfDict(d) == [sha1 |-> d]

\* Torrent::calc_hash
calc_hash(t) == Sha1OfDict(SerializeInfo(t))

----------------------------------------------------------------------------
(* SpecInfo: a metainfo file's info dictionary, in canonical form (keys in *)
(* byte order), is read into the typed view and its hash is computed.      *)

\* info dictionaries have up to this many files in the multi-file form
MaxInfoFiles == 2

InfoFileDicts ==
    {SortByKey(<<[key |-> "length", val |-> [int |-> n]],
                 [key |-> "path", val |-> [str |-> "f"]]>> \o extra) :
        n \in 1..2,
        extra \in {<<>>, <<[key |-> "md5sum", val |-> [str |-> "m"]]>>}}

InfoShapes ==
    {<<[key |-> "length", val |-> [int |-> n]]>> : n \in 1..2}
    \cup {<<[key |-> "files", val |-> [list |-> fs]]>> :
            fs \in UNION {[1..n -> InfoFileDicts] : n \in 1..MaxInfoFiles}}

InfoExtras ==
    {<<>>,
     <<[key |-> "private", val |-> [int |-> 1]]>>,
     <<[key |-> "source", val |-> [str |-> "s"]]>>,
     <<[key |-> "private", val |-> [int |-> 1]],
       [key |-> "source", val |-> [str |-> "s"]]>>}

\* with or without the name: a dictionary without it is not accepted
InfoNames == {<<>>, <<[key |-> "name", val |-> [str |-> "a"]]>>}

InfoDicts ==
    {SortByKey(name \o shape \o extra \o
               <<[key |-> "piece length", val |-> [int |-> pl]],
                 [key |-> "pieces", val |-> [str |-> "digests"]]>>) :
        name \in InfoNames, shape \in InfoShapes, extra \in InfoExtras,
        pl \in 1..2}

\* the keys the typed view declares, in the info dictionary and in a file's
DeclaredKeys == {"files", "length", "name", "path", "piece length", "pieces"}

RECURSIVE OnlyDeclaredKeys(_)
OnlyDeclaredKeys(d) ==
    \A i \in 1..Len(d) :
        /\ d[i].key \in DeclaredKeys
        /\ "list" \in DOMAIN d[i].val =>
               \A j \in 1..Len(d[i].val.list) : OnlyDeclaredKeys(d[i].val.list[j])

InitInfo ==
    /\ layout = [pc |-> "idle"]
    /\ DownloadIdle
    /\ BencodeIdle
    /\ FrameIdle
    /\ \E d \in InfoDicts : info = [pc |-> "file", original |-> d]

\* the typed view accepts the dictionary
InfoDeserialize ==
    /\ info.pc = "file"
    /\ InfoAccepts(info.original)
    /\ info' = [pc |-> "decoded", original |-> info.original,
                typed |-> DeserializeInfo(info.original)]
    /\ UNCHANGED <<layout, dlvars, codecvars>>

\* a required key is missing: the metainfo is not accepted
InfoReject ==
    /\ info.pc = "file"
    /\ ~InfoAccepts(info.original)
    /\ info' = [pc |-> "rejected", original |-> info.original]
    /\ UNCHANGED <<layout, dlvars, codecvars>>

CalcHash ==
    /\ info.pc = "decoded"
    /\ info' = [pc |-> "hashed", original |-> info.original,
                typed |-> info.typed,
                reencoded |-> SerializeInfo(info.typed),
                info_hash |-> calc_hash(info.typed)]
    /\ UNCHANGED <<layout, dlvars, codecvars>>

NextInfo ==
    \/ InfoDeserialize
    \/ InfoReject
    \/ CalcHash

SpecInfo == InitInfo /\ [][NextInfo]_vars

\* C10: for every accepted info dictionary, also one that carries keys the
\* typed view does not declare, the re-encoded info subtree is the original
\* byte range and calc_hash is the SHA-1 of the original bytes.
CexC10_ReencodeReproducesOriginal ==
    info.pc = "hashed" =>
        /\ info.reencoded = info.original
        /\ info.info_hash = Sha1OfDict(info.original)

\* what the code does keep: an info dictionary with declared keys only
RoundTripOfDeclaredKeys ==
    (info.pc = "hashed" /\ OnlyDeclaredKeys(info.original)) =>
        /\ info.reencoded = info.original
        /\ info.info_hash = Sha1OfDict(info.original)

----------------------------------------------------------------------------
(* Torrent::pieces_to_be_downloaded: the start-up probe                    *)

\* Vec::with_capacity(n): an empty vector (capacity n, length 0)
VecWithCapacity(n) == <<>>

\* File::read_exact(&mut buf) after seek(offset): fills buf, that is reads
\* exactly buf.len() bytes
ReadExact(d, path, offset, buf) == FileBytes(d, path, offset, Len(buf))

\* buf after the inner loop over the segments of one piece
RECURSIVE ProbeBuf(_, _)
ProbeBuf(d, segs) ==
    IF segs = <<>> THEN <<>>
    ELSE LET sub_buf == VecWithCapacity(Head(segs).length)
         IN ReadExact(d, Head(segs).path, Head(segs).offset, sub_buf)
            \o ProbeBuf(d, Tail(segs))

\* if calc_sha1_hash(buf) != self.info.pieces.0[piece_index]
ProbeQueues(d, piece_index) ==
    calc_sha1_hash(ProbeBuf(d, SegmentsOf(piece_index))) # pieces_hash[piece_index]

\* pieces_to_be_downloaded with a fault: every queued index is pushed twice
pieces_to_be_downloadedTwice(d) ==
    LET Queued(i) == ProbeQueues(d, i)
        once == SelectSeq([k \in 1..total_pieces_to_download |-> k - 1], Queued)
    IN once \o once

\* to_be_downloaded_pieces: the queued indices in ascending order
pieces_to_be_downloaded(d) ==
    LET Queued(i) == ProbeQueues(d, i)
    IN SelectSeq([k \in 1..total_pieces_to_download |-> k - 1], Queued)

\* the pieces whose bytes on the disk d hash to the manifest's digest
GoodOnDisk(d) == {i \in Pieces : calc_sha1_hash(OnDiskBytes(d, i)) = pieces_hash[i]}

----------------------------------------------------------------------------
(* Spec: start_download and its peer sessions                              *)

\* the frames a peer may send before the session's loop: a bitfield with
\* every piece, or unchoke
FrameChoices ==
    {[tag |-> "Bitfield", have |-> Pieces], [tag |-> "Unchoke", have |-> {}]}

\* new_frame, the frame framed.next() yields inside the while loop: its tag
\* and, as far as its payload has them, an index, a begin and a block
NoFrame == [tag |-> "none", index |-> -1, begin |-> -1, block |-> <<>>]

FrameOf(tag, index, begin, block) ==
    [tag |-> tag, index |-> index, begin |-> begin, block |-> block]

\* the remote's state as the frames it sent define it
RemoteAfter(r, frame) ==
    CASE frame.tag = "Bitfield" -> [r EXCEPT !.have = frame.have]
      [] frame.tag = "Unchoke" -> [r EXCEPT !.unchoked = TRUE]
      [] frame.tag = "Choke" -> [r EXCEPT !.unchoked = FALSE]
      [] frame.tag = "Have" -> [r EXCEPT !.have = @ \cup {frame.index}]
      [] OTHER -> r

SessUnspawned ==
    [pc |-> "unspawned", cause |-> "", piece_index |-> -1, piece_data |-> <<>>,
     piece_downloaded_len |-> 0, new_frame |-> NoFrame, seg |-> 0,
     piece_data_pointer |-> 0]

\* a task that ended by a panic (an unwrap or an assert_eq); its locals are
\* dropped, the piece it had popped is remembered
Panicked(s, cause) ==
    [pc |-> "panicked", cause |-> cause, piece_index |-> s.piece_index,
     piece_data |-> <<>>, piece_downloaded_len |-> 0, new_frame |-> NoFrame,
     seg |-> 0, piece_data_pointer |-> 0]

Init ==
    /\ layout = [pc |-> "idle"]
    /\ info = [pc |-> "idle"]
    /\ BencodeIdle
    /\ FrameIdle
    /\ \E good \in SUBSET Pieces : disk = DiskWith(good, 0)
    /\ main = [pc |-> "start", result |-> "none", joined |-> FALSE, peers |-> {},
               tracker |-> "none",
               good_at_start |-> GoodOnDisk(disk), initial_missing |-> {}]
    /\ pieces_to_download = <<>>
    /\ file_handle_mapping = [opened |-> {}, holder |-> 0, poisoned |-> FALSE]
    /\ sess = [p \in Peers |-> SessUnspawned]
    /\ remote = [p \in Peers |-> [info_hash_matches |-> TRUE, unchoked |-> FALSE,
                                  have |-> {}]]
    /\ sent = [p \in Peers |-> <<>>]
    /\ persisted = {}

\* reserve_space, genereate_piece_mapping, pieces_to_be_downloaded
Probe ==
    /\ main.pc = "start"
    /\ pieces_to_download' = pieces_to_be_downloaded(disk)
    /\ main' = [main EXCEPT !.pc = "tracker",
                            !.initial_missing =
                                {pieces_to_download'[k] : k \in 1..Len(pieces_to_download')}]
    /\ UNCHANGED <<codecvars, layout, info, disk, file_handle_mapping, sess, remote, sent,
                   persisted>>

\* reqwest::get(url).await fails, or the answer is no bencoded response: the
\* ? operator returns the error
TrackerTransportError ==
    /\ main.pc = "tracker"
    /\ main' = [main EXCEPT !.pc = "returned", !.result = "Err",
                            !.tracker = "TransportError"]
    /\ UNCHANGED <<codecvars, layout, info, disk, pieces_to_download, file_handle_mapping,
                   sess, remote, sent, persisted>>

\* TrackerResponseType::Failure: the reason is printed, Ok(()) is returned
TrackerFailure ==
    /\ main.pc = "tracker"
    /\ main' = [main EXCEPT !.pc = "returned", !.result = "Ok",
                            !.tracker = "Failure"]
    /\ UNCHANGED <<codecvars, layout, info, disk, pieces_to_download, file_handle_mapping,
                   sess, remote, sent, persisted>>

\* TrackerResponseType::Success: one task is spawned for every peer
TrackerSuccess ==
    /\ main.pc = "tracker"
    /\ \E n \in 0..NumPeers :
          /\ main' = [main EXCEPT !.pc = "join", !.peers = 1..n,
                                  !.tracker = "Success"]
          /\ sess' = [p \in Peers |->
                         IF p <= n THEN [sess[p] EXCEPT !.pc = "connect"] ELSE sess[p]]
    /\ UNCHANGED <<codecvars, layout, info, disk, pieces_to_download, file_handle_mapping,
                   remote, sent, persisted>>

SessionEnded(p) == sess[p].pc \in {"finished", "panicked"}

\* join_all(handle_vec).await; the tasks' results are dropped; Ok(())
Join ==
    /\ main.pc = "join"
    /\ \A p \in main.peers : SessionEnded(p)
    /\ main' = [main EXCEPT !.pc = "returned", !.result = "Ok", !.joined = TRUE]
    /\ UNCHANGED <<codecvars, layout, info, disk, pieces_to_download, file_handle_mapping,
                   sess, remote, sent, persisted>>

(* One peer session: the task start_download spawns for a peer             *)

\* piece_to_download_len of the piece the session holds
PieceLenOf(s) ==
    piece_to_download_len_of(s.piece_index, TorrentPieceLength,
                             total_pieces_to_download, torrent_data_len)

\* ThisBlockLen with a fault: every request asks for a whole block
ThisBlockLenWholeBlock(s) == max_request_block_size

\* this_block_data_len
ThisBlockLen(s) == Min(PieceLenOf(s) - s.piece_downloaded_len, max_request_block_size)

\* TcpStream::connect(peer).await succeeds
Connect(p) ==
    /\ sess[p].pc = "connect"
    /\ sess' = [sess EXCEPT ![p].pc = "handshake"]
    /\ UNCHANGED <<codecvars, layout, info, main, disk, pieces_to_download,
                   file_handle_mapping, remote, sent, persisted>>

\* the peers of the answer that may belong to another swarm: the first
OtherSwarm == {1}

\* the handshake is written, the peer's is read and deserialized; its info
\* hash, equal to ours or not, is bound to _response_handshake and not read
Handshake(p) ==
    /\ sess[p].pc = "handshake"
    /\ \E matches \in (IF p \in OtherSwarm THEN BOOLEAN ELSE {TRUE}) :
          remote' = [remote EXCEPT ![p].info_hash_matches = matches]
    /\ sess' = [sess EXCEPT ![p].pc = "first_frame"]
    /\ UNCHANGED <<codecvars, layout, info, main, disk, pieces_to_download,
                   file_handle_mapping, sent, persisted>>

\* framed.next() yields the peer's first frame, whatever its tag; then the
\* session sends interested
FirstFrame(p) ==
    /\ sess[p].pc = "first_frame"
    /\ \E frame \in FrameChoices : remote' = [remote EXCEPT ![p] = RemoteAfter(@, frame)]
    /\ sent' = [sent EXCEPT ![p] = Append(@, [tag |-> "Interested"])]
    /\ sess' = [sess EXCEPT ![p].pc = "second_frame"]
    /\ UNCHANGED <<codecvars, layout, info, main, disk, pieces_to_download,
                   file_handle_mapping, persisted>>

\* framed.next() yields the next frame, whatever its tag
SecondFrame(p) ==
    /\ sess[p].pc = "second_frame"
    /\ \E frame \in FrameChoices : remote' = [remote EXCEPT ![p] = RemoteAfter(@, frame)]
    /\ sess' = [sess EXCEPT ![p].pc = "pop"]
    /\ UNCHANGED <<codecvars, layout, info, main, disk, pieces_to_download,
                   file_handle_mapping, sent, persisted>>

\* pieces_to_download.lock().unwrap().pop() yields a piece
PopPiece(p) ==
    /\ sess[p].pc = "pop"
    /\ Len(pieces_to_download) > 0
    /\ pieces_to_download' = SubSeq(pieces_to_download, 1, Len(pieces_to_download) - 1)
    /\ sess' = [sess EXCEPT ![p] = [pc |-> "block", cause |-> "",
                                    piece_index |-> pieces_to_download[Len(pieces_to_download)],
                                    piece_data |-> <<>>, piece_downloaded_len |-> 0,
                                    new_frame |-> NoFrame, seg |-> 0,
                                    piece_data_pointer |-> 0]]
    /\ UNCHANGED <<codecvars, layout, info, main, disk, file_handle_mapping, remote, sent,
                   persisted>>

\* pop() yields None: break; the task ends
LeaveLoop(p) ==
    /\ sess[p].pc = "pop"
    /\ Len(pieces_to_download) = 0
    /\ sess' = [sess EXCEPT ![p] = [SessUnspawned EXCEPT !.pc = "finished"]]
    /\ UNCHANGED <<codecvars, layout, info, main, disk, pieces_to_download,
                   file_handle_mapping, remote, sent, persisted>>

\* the request of the next block is sent
SendRequest(p) ==
    /\ sess[p].pc = "block"
    /\ PieceLenOf(sess[p]) # sess[p].piece_downloaded_len
    /\ sent' = [sent EXCEPT ![p] =
                   Append(@, [tag |-> "Request", index |-> sess[p].piece_index,
                              begin |-> sess[p].piece_downloaded_len,
                              length |-> ThisBlockLen(sess[p])])]
    /\ sess' = [sess EXCEPT ![p].pc = "await"]
    /\ UNCHANGED <<codecvars, layout, info, main, disk, pieces_to_download,
                   file_handle_mapping, remote, persisted>>

\* the blocks a peer may answer a request with: the requested bytes, as many
\* wrong bytes (3 occurs neither in the content nor on the start-up disk), or
\* the requested bytes but the last
BlockChoices(s) ==
    LET want == SubSeq(ContentOfPiece(s.piece_index), s.piece_downloaded_len + 1,
                       s.piece_downloaded_len + ThisBlockLen(s))
    IN {want, [k \in 1..Len(want) |-> 3], SubSeq(want, 1, Len(want) - 1)}

\* the bytes [begin, begin + length) of piece index, as far as the piece has
\* them
BlockOfContent(index, begin, length) ==
    SubSeq(ContentOfPiece(index), begin + 1,
           Min(begin + length, Len(ContentOfPiece(index))))

\* the piece messages a peer may answer a request with: the message of the
\* request with one of the blocks of BlockChoices, the message of another
\* piece at the same begin, or the message of the same piece at another begin
PieceMsgChoices(s) ==
    LET other_index == (s.piece_index + 1) % total_pieces_to_download
        other_begin == IF s.piece_downloaded_len = 0 THEN max_request_block_size ELSE 0
    IN  {FrameOf("Piece", s.piece_index, s.piece_downloaded_len, b) :
            b \in BlockChoices(s)}
        \cup {FrameOf("Piece", other_index, s.piece_downloaded_len,
                      BlockOfContent(other_index, s.piece_downloaded_len,
                                     ThisBlockLen(s))),
              FrameOf("Piece", s.piece_index, other_begin,
                      BlockOfContent(s.piece_index, other_begin, ThisBlockLen(s)))}

\* the frames that are no piece message: have of piece 0
OtherFrames == {FrameOf("Have", 0, -1, <<>>)}

\* framed.next().await after a request yields the peer's next frame
AwaitFrame(p) ==
    /\ sess[p].pc = "await"
    /\ \E frame \in PieceMsgChoices(sess[p]) \cup OtherFrames :
          /\ sess' = [sess EXCEPT ![p].new_frame = frame, ![p].pc = "got"]
          /\ remote' = [remote EXCEPT ![p] = RemoteAfter(@, frame)]
    /\ UNCHANGED <<codecvars, layout, info, main, disk, pieces_to_download,
                   file_handle_mapping, sent, persisted>>

\* PeerPieceMsgType::from_bytes(new_frame.data()).block(): the block of the
\* piece message, the bytes after its index and begin
PeerPieceMsgTypeBlock(frame) == frame.block

\* new_frame is a piece message: its block is appended, the requested
\* length is counted, and the iteration of the while loop ends
RecvPiece(p) ==
    /\ sess[p].pc = "got"
    /\ sess[p].new_frame.tag = "Piece"
    /\ sess' = [sess EXCEPT ![p].piece_data =
                                @ \o PeerPieceMsgTypeBlock(sess[p].new_frame),
                            ![p].piece_downloaded_len = @ + ThisBlockLen(sess[p]),
                            ![p].new_frame = NoFrame,
                            ![p].pc = "block"]
    /\ UNCHANGED <<codecvars, layout, info, main, disk, pieces_to_download,
                   file_handle_mapping, remote, sent, persisted>>

\* new_frame is no piece message: assert_eq!(&PeerMsgTag::Piece, ..) fails;
\* the session is over and the frame is not looked at further
RecvOther(p) ==
    /\ sess[p].pc = "got"
    /\ sess[p].new_frame.tag # "Piece"
    /\ sess' = [sess EXCEPT ![p] = Panicked(@, "UnexpectedMessage")]
    /\ UNCHANGED <<codecvars, layout, info, main, disk, pieces_to_download,
                   file_handle_mapping, remote, sent, persisted>>

\* connect, a read or a write fails, or the stream ends: unwrap panics
SocketError(p) ==
    /\ \/ sess[p].pc \in {"connect", "handshake", "first_frame", "second_frame", "await"}
       \/ sess[p].pc = "block" /\ PieceLenOf(sess[p]) # sess[p].piece_downloaded_len
    /\ sess' = [sess EXCEPT ![p] = Panicked(@, IF sess[p].pc = "connect"
                                               THEN "ConnectFailed"
                                               ELSE "SocketError")]
    /\ UNCHANGED <<codecvars, layout, info, main, disk, pieces_to_download,
                   file_handle_mapping, remote, sent, persisted>>

\* HashAssertHolds with a fault: the assertion fails for every piece
HashAssertNever(piece_index, piece_data) == FALSE

\* HashAssertHolds with a fault: the digest is not compared
HashAssertSkipped(piece_index, piece_data) == TRUE

\* assert_eq!(pieces_hash[piece_index], piece_hash)
HashAssertHolds(piece_index, piece_data) ==
    pieces_hash[piece_index] = calc_sha1_hash(piece_data)

\* the while loop has ended: the two assert_eq! on the piece
Verify(p) ==
    /\ sess[p].pc = "block"
    /\ PieceLenOf(sess[p]) = sess[p].piece_downloaded_len
    /\ sess' = [sess EXCEPT ![p] =
                   IF PieceLenOf(@) # Len(@.piece_data)
                   THEN Panicked(@, "PieceLengthMismatch")
                   ELSE IF ~HashAssertHolds(@.piece_index, @.piece_data)
                   THEN Panicked(@, "PieceHashMismatch")
                   ELSE [@ EXCEPT !.pc = "lock"]]
    /\ UNCHANGED <<codecvars, layout, info, main, disk, pieces_to_download,
                   file_handle_mapping, remote, sent, persisted>>

\* file_handle_mapping.lock().unwrap(): the guard lives to the end of the
\* loop body; a poisoned mutex makes unwrap panic
LockHandles(p) ==
    /\ sess[p].pc = "lock"
    /\ file_handle_mapping.holder = 0
    /\ IF file_handle_mapping.poisoned
       THEN /\ sess' = [sess EXCEPT ![p] = Panicked(@, "PoisonedLock")]
            /\ UNCHANGED file_handle_mapping
       ELSE /\ sess' = [sess EXCEPT ![p].pc = "write", ![p].seg = 1,
                                    ![p].piece_data_pointer = 0]
            /\ file_handle_mapping' = [file_handle_mapping EXCEPT !.holder = p]
    /\ UNCHANGED <<codecvars, layout, info, main, disk, pieces_to_download, remote, sent,
                   persisted>>

\* one iteration of the loop over the piece's segments: the file is opened
\* if the map does not hold it, the slice is handed to seek_write, whose
\* result is dropped (let _ =): all bytes are written, or none
WriteSegment(p) ==
    /\ sess[p].pc = "write"
    /\ sess[p].seg <= Len(SegmentsOf(sess[p].piece_index))
    /\ LET file_path_detail == SegmentsOf(sess[p].piece_index)[sess[p].seg]
           slice == SubSeq(sess[p].piece_data, sess[p].piece_data_pointer + 1,
                           sess[p].piece_data_pointer + file_path_detail.length)
       IN /\ file_handle_mapping' =
                 [file_handle_mapping EXCEPT !.opened = @ \cup {file_path_detail.path}]
          /\ \E written \in BOOLEAN :
                /\ persisted' = persisted \cup
                       {[piece_index |-> sess[p].piece_index, seg |-> sess[p].seg,
                         digest |-> calc_sha1_hash(sess[p].piece_data),
                         written |-> written]}
                /\ disk' = IF written
                           THEN [disk EXCEPT ![file_path_detail.path] =
                                    WriteAt(@, file_path_detail.offset, slice)]
                           ELSE disk
          /\ sess' = [sess EXCEPT ![p].seg = @ + 1,
                                  ![p].piece_data_pointer = @ + file_path_detail.length]
    /\ UNCHANGED <<codecvars, layout, info, main, pieces_to_download, remote, sent>>

\* OpenOptions::new().write(true).open(path).unwrap() fails: the task panics
\* holding the guard, which poisons the mutex
OpenFails(p) ==
    /\ sess[p].pc = "write"
    /\ sess[p].seg <= Len(SegmentsOf(sess[p].piece_index))
    /\ SegmentsOf(sess[p].piece_index)[sess[p].seg].path \notin file_handle_mapping.opened
    /\ sess' = [sess EXCEPT ![p] = Panicked(@, "OpenFailed")]
    /\ file_handle_mapping' = [file_handle_mapping EXCEPT !.holder = 0, !.poisoned = TRUE]
    /\ UNCHANGED <<codecvars, layout, info, main, disk, pieces_to_download, remote, sent,
                   persisted>>

\* the loop body ends: the guard is dropped, the loop goes on with the next pop
Unlock(p) ==
    /\ sess[p].pc = "write"
    /\ sess[p].seg > Len(SegmentsOf(sess[p].piece_index))
    /\ file_handle_mapping' = [file_handle_mapping EXCEPT !.holder = 0]
    /\ sess' = [sess EXCEPT ![p].pc = "pop"]
    /\ UNCHANGED <<codecvars, layout, info, main, disk, pieces_to_download, remote, sent,
                   persisted>>

Next ==
    \/ Probe
    \/ TrackerTransportError
    \/ TrackerFailure
    \/ TrackerSuccess
    \/ Join
    \/ \E p \in Peers :
          \/ Connect(p)
          \/ Handshake(p)
          \/ FirstFrame(p)
          \/ SecondFrame(p)
          \/ PopPiece(p)
          \/ LeaveLoop(p)
          \/ SendRequest(p)
          \/ AwaitFrame(p)
          \/ RecvPiece(p)
          \/ RecvOther(p)
          \/ SocketError(p)
          \/ Verify(p)
          \/ LockHandles(p)
          \/ WriteSegment(p)
          \/ OpenFails(p)
          \/ Unlock(p)

Spec == Init /\ [][Next]_vars

\* the steps a spawned task takes by itself, without a byte from its peer:
\* the runtime of tokio::spawn runs a task that is ready
SessionStep(p) ==
    \/ PopPiece(p)
    \/ LeaveLoop(p)
    \/ SendRequest(p)
    \/ RecvPiece(p)
    \/ RecvOther(p)
    \/ Verify(p)
    \/ LockHandles(p)
    \/ WriteSegment(p)
    \/ Unlock(p)

\* every task that can go on by itself does, and join_all returns when the
\* tasks have ended; what a peer or the tracker sends, and when, is not
\* promised
Fairness ==
    /\ WF_vars(Join)
    /\ \A p \in Peers : WF_vars(SessionStep(p))

FairSpec == Spec /\ Fairness

\* start_download with fair scheduling and parties that answer: as long as
\* the coordinator, a task, the tracker or a peer has a step to take, a step
\* is taken
LiveSpec == Spec /\ WF_vars(Next)

----------------------------------------------------------------------------
(* The claims about start_download                                         *)

\* the pieces in the missing-piece set
Missing == {pieces_to_download[k] : k \in 1..Len(pieces_to_download)}

\* piece i is held by a session that has popped it and is still running
InFlight(i) ==
    \E p \in Peers : sess[p].pc \in {"block", "await", "got", "lock", "write"}
                     /\ sess[p].piece_index = i

\* every segment of piece i has been handed to seek_write
Completed(i) ==
    \A k \in 1..Len(SegmentsOf(i)) :
        \E w \in persisted : w.piece_index = i /\ w.seg = k

\* the disk as it was when start_download began
DiskAtStart == DiskWith(main.good_at_start, 0)

RequestsSent(p) == {k \in 1..Len(sent[p]) : sent[p][k].tag = "Request"}

\* C1: a slice of a piece is handed to seek_write only when the SHA-1 of
\* the whole reassembled piece is the manifest's digest of that piece; so a
\* session is in its write phase only with a verified piece, and every
\* segment of the disk holds what it held at start-up or the content.
ThmC1_OnlyVerifiedPiecesPersisted ==
    main.pc # "idle" =>
        /\ \A w \in persisted : w.digest = pieces_hash[w.piece_index]
        /\ \A p \in Peers :
              sess[p].pc = "write" =>
                  calc_sha1_hash(sess[p].piece_data) = pieces_hash[sess[p].piece_index]
        /\ \A i \in Pieces : \A k \in 1..Len(SegmentsOf(i)) :
              LET seg == SegmentsOf(i)[k]
                  ptr == SegLenSum(SubSeq(SegmentsOf(i), 1, k - 1))
              IN FileBytes(disk, seg.path, seg.offset, seg.length) \in
                     {FileBytes(DiskAtStart, seg.path, seg.offset, seg.length),
                      SubSeq(ContentOfPiece(i), ptr + 1, ptr + seg.length)}

\* one session has ended on a piece of the right length and the wrong
\* digest, nothing of that piece was persisted, and another piece was
WitC1_MismatchNotPersisted ==
    /\ main.pc # "idle"
    /\ \E p \in Peers :
          /\ sess[p].pc = "panicked"
          /\ sess[p].cause = "PieceHashMismatch"
          /\ \A w \in persisted : w.piece_index # sess[p].piece_index
    /\ \E i \in Pieces : Completed(i)

\* C2: when a session has collected all blocks of piece i and their SHA-1
\* differs from the manifest's digest, the session is closed and i is back
\* in the missing-piece set (or already taken from there by another session
\* or completed by one).
CexC2_MismatchRequeuesPiece ==
    main.pc # "idle" =>
        \A p \in Peers :
            (sess[p].pc = "panicked" /\ sess[p].cause = "PieceHashMismatch") =>
                \/ sess[p].piece_index \in Missing
                \/ InFlight(sess[p].piece_index)
                \/ Completed(sess[p].piece_index)

\* C3: no piece index is lost: every piece that was missing at start-up is
\* in the missing-piece set, in flight at a live session, or verified and
\* written.
CexC3_NoPieceLost ==
    main.pc # "idle" =>
        \A i \in main.initial_missing : i \in Missing \/ InFlight(i) \/ Completed(i)

\* C4: once every peer session has closed, start_download reports success
\* exactly when every piece has been verified and written (or was not
\* missing at start-up), and an error otherwise.
CexC4_PartialCompletionIsError ==
    (main.pc = "returned" /\ main.joined /\ main.peers # {}) =>
        (main.result = "Ok" <=>
            \A i \in Pieces : Completed(i) \/ i \notin main.initial_missing)

\* C5: after the start-up probe the missing-piece set holds exactly the
\* pieces whose on-disk bytes, read through the layout map, do not hash to
\* the manifest's digest.
CexC5_ProbeQueuesExactlyBadPieces ==
    main.pc = "tracker" => Missing = Pieces \ GoodOnDisk(disk)

\* C6: if at start-up every piece's on-disk bytes hash to its digest, no
\* session sends a request, and the run reports completion.
CexC6_ResumeSendsNoRequest ==
    (main.pc # "idle" /\ main.good_at_start = Pieces) =>
        /\ \A p \in Peers : RequestsSent(p) = {}
        /\ (main.pc = "returned" /\ main.joined) => main.result = "Ok"

\* C7: a session whose peer's handshake carries another info hash never
\* sends interested (nor a request).
CexC7_MismatchedHandshakeSendsNothing ==
    main.pc # "idle" =>
        \A p \in Peers : ~remote[p].info_hash_matches => sent[p] = <<>>


----------------------------------------------------------------------------
(* download.rs: the hand-written bencode decoder                           *)
(*                                                                         *)
(* A byte is its number, 0..255; a Rust String is the sequence of its code *)
(* points.  A BencodeType is a record of the same four fields for each of  *)
(* its variants: ty is the variant, s the String of a Bstring, n the u64   *)
(* of a Bint, v the elements of a Bvec or, for a Bmap, its entries in the  *)
(* order of the BTreeMap, flattened: key, value, key, value, ...           *)

\* the bytes the decoder tests for
ch == [i |-> 105, l |-> 108, d |-> 100, e |-> 101, colon |-> 58, zero |-> 48,
       nine |-> 57, plus |-> 43, a |-> 97, b |-> 98]

Bstring(s) == [ty |-> "Bstring", s |-> s, n |-> 0, v |-> <<>>]

Bvec(v) == [ty |-> "Bvec", s |-> <<>>, n |-> 0, v |-> v]

Bmap(m) == [ty |-> "Bmap", s |-> <<>>, n |-> 0, v |-> m]

Bint(n) == [ty |-> "Bint", s |-> <<>>, n |-> n, v |-> <<>>]

\* the place of a variant in the enum, which #[derive(Ord)] compares first
VariantRank(ty) ==
    CASE ty = "Bstring" -> 0 [] ty = "Bvec" -> 1 [] ty = "Bmap" -> 2 [] ty = "Bint" -> 3

\* Ord of two integers, of two Strings (lexicographic), as -1, 0, 1
CmpInt(x, y) == IF x < y THEN -1 ELSE IF x > y THEN 1 ELSE 0

RECURSIVE CmpString(_, _)
CmpString(x, y) ==
    IF x = <<>> /\ y = <<>> THEN 0
    ELSE IF x = <<>> THEN -1
    ELSE IF y = <<>> THEN 1
    ELSE IF Head(x) # Head(y) THEN CmpInt(Head(x), Head(y))
    ELSE CmpString(Tail(x), Tail(y))

\* #[derive(PartialOrd, Ord)] of BencodeType; a Vec and a BTreeMap compare
\* their elements (entries) lexicographically
RECURSIVE CmpBencode(_, _), CmpBencodeSeq(_, _)
CmpBencode(x, y) ==
    IF x.ty # y.ty THEN CmpInt(VariantRank(x.ty), VariantRank(y.ty))
    ELSE IF x.ty = "Bstring" THEN CmpString(x.s, y.s)
    ELSE IF x.ty = "Bint" THEN CmpInt(x.n, y.n)
    ELSE CmpBencodeSeq(x.v, y.v)

CmpBencodeSeq(x, y) ==
    IF x = <<>> /\ y = <<>> THEN 0
    ELSE IF x = <<>> THEN -1
    ELSE IF y = <<>> THEN 1
    ELSE LET c == CmpBencode(Head(x), Head(y))
         IN  IF c # 0 THEN c ELSE CmpBencodeSeq(Tail(x), Tail(y))

\* BTreeMap::insert with a fault: the entry is put in front of the others,
\* whatever its key
BTreeMapInsertFront(m, key, value) == <<key, value>> \o m

\* BTreeMap::insert: the entry goes to its place in key order; the value of
\* an equal key is replaced
RECURSIVE BTreeMapInsert(_, _, _)
BTreeMapInsert(m, key, value) ==
    IF m = <<>> THEN <<key, value>>
    ELSE LET c == CmpBencode(key, m[1])
         IN  IF c = 0 THEN <<m[1], value>> \o Tail(Tail(m))
             ELSE IF c < 0 THEN <<key, value>> \o m
             ELSE <<m[1], m[2]>> \o BTreeMapInsert(Tail(Tail(m)), key, value)

IsAsciiDigit(c) == ch.zero <= c /\ c <= ch.nine

\* str::parse::<usize> and ::<u64>: an optional '+', then one digit or more.
\* The numbers of the model stay far below 2^64, where parse overflows.
ParseAccepts(chars) ==
    LET digits == IF chars # <<>> /\ Head(chars) = ch.plus THEN Tail(chars) ELSE chars
    IN  /\ digits # <<>>
        /\ \A k \in 1..Len(digits) : IsAsciiDigit(digits[k])

RECURSIVE ParseDigits(_)
ParseDigits(digits) ==
    IF digits = <<>> THEN 0
    ELSE 10 * ParseDigits(SubSeq(digits, 1, Len(digits) - 1))
         + (digits[Len(digits)] - ch.zero)

ParseValue(chars) ==
    ParseDigits(IF Head(chars) = ch.plus THEN Tail(chars) ELSE chars)

\* String::from_utf8_lossy on bytes of 0..127 and bytes that occur in no
\* UTF-8 encoding (248..255): the former are kept, each of the latter becomes
\* U+FFFD
from_utf8_lossy(bytes) ==
    [k \in 1..Len(bytes) |-> IF bytes[k] < 128 THEN bytes[k] ELSE 65533]

\* the three ways a call of the decoder ends: Ok((value, consumed)), Err by
\* bail! or ?, or a panic of an index or a slice out of range
NoValue == [ty |-> "none", s |-> <<>>, n |-> 0, v |-> <<>>]

DecOk(val, consumed) == [kind |-> "Ok", val |-> val, consumed |-> consumed]

DecErr == [kind |-> "Err", val |-> NoValue, consumed |-> 0]

DecPanic == [kind |-> "Panic", val |-> NoValue, consumed |-> 0]

\* the least index (from 1) at or after from at which data holds c, 0 if none
IndexOf(data, from, c) ==
    LET at == {k \in from..Len(data) : data[k] = c}
    IN  IF at = {} THEN 0 ELSE CHOOSE k \in at : \A j \in at : k <= j

\* DecodeBstring with a fault: the ':' is left out of the consumed count
DecodeBstringShortCount(data) ==
    LET colon == IndexOf(data, 1, ch.colon)
        string_len_in_string_format == SubSeq(data, 1, colon - 1)
        string_len == ParseValue(string_len_in_string_format)
    IN  IF colon = 0 THEN DecPanic
        ELSE IF ~ParseAccepts(string_len_in_string_format) THEN DecErr
        ELSE IF colon + string_len > Len(data) THEN DecPanic
        ELSE DecOk(Bstring(from_utf8_lossy(SubSeq(data, colon + 1, colon + string_len))),
                   string_len + Len(string_len_in_string_format))

\* the branch of a first byte that is an ASCII digit
DecodeBstring(data) ==
    LET colon == IndexOf(data, 1, ch.colon)
        string_len_in_string_format == SubSeq(data, 1, colon - 1)
        string_len == ParseValue(string_len_in_string_format)
    IN  IF colon = 0 THEN DecPanic
        ELSE IF ~ParseAccepts(string_len_in_string_format) THEN DecErr
        ELSE IF colon + string_len > Len(data) THEN DecPanic
        ELSE DecOk(Bstring(from_utf8_lossy(SubSeq(data, colon + 1, colon + string_len))),
                   string_len + Len(string_len_in_string_format) + 1)

\* the branch of a first byte 'i'
DecodeBint(data) ==
    LET end == IndexOf(data, 2, ch.e)
        buffer == SubSeq(data, 2, end - 1)
    IN  IF end = 0 THEN DecPanic
        ELSE IF ~ParseAccepts(buffer) THEN DecErr
        ELSE DecOk(Bint(ParseValue(buffer)), end)

\* recursive_bencode_decoder; index counts from 0 as in the source, and
\* ListLoop and MapLoop are the while loops of the 'l' and the 'd' branch
RECURSIVE recursive_bencode_decoder(_), ListLoop(_, _, _), MapLoop(_, _, _, _)
recursive_bencode_decoder(data) ==
    IF data = <<>> THEN DecPanic
    ELSE IF IsAsciiDigit(data[1]) THEN DecodeBstring(data)
    ELSE IF data[1] = ch.i THEN DecodeBint(data)
    ELSE IF data[1] = ch.l THEN ListLoop(data, 0, <<>>)
    ELSE IF data[1] = ch.d THEN MapLoop(data, 0, TRUE, <<>>)
    ELSE DecErr

\* ListLoop with a fault: the end of the data ends the list as an 'e' does
ListLoopEndsAtEof(data, index, ben_vec) ==
    IF index >= Len(data) THEN DecOk(Bvec(ben_vec), index)
    ELSE IF data[index + 1] = ch.e THEN DecOk(Bvec(ben_vec), index + 1)
    ELSE LET data_to_parse_start_index_offset == IF Len(ben_vec) = 0 THEN 1 ELSE 0
             r == recursive_bencode_decoder(
                      SubSeq(data, index + data_to_parse_start_index_offset + 1, Len(data)))
         IN  IF r.kind # "Ok" THEN r
             ELSE ListLoop(data, index + r.consumed + data_to_parse_start_index_offset,
                           Append(ben_vec, r.val))

ListLoop(data, index, ben_vec) ==
    IF index >= Len(data) THEN DecPanic
    ELSE IF data[index + 1] = ch.e THEN DecOk(Bvec(ben_vec), index + 1)
    ELSE LET data_to_parse_start_index_offset == IF Len(ben_vec) = 0 THEN 1 ELSE 0
             r == recursive_bencode_decoder(
                      SubSeq(data, index + data_to_parse_start_index_offset + 1, Len(data)))
         IN  IF r.kind # "Ok" THEN r
             ELSE ListLoop(data, index + r.consumed + data_to_parse_start_index_offset,
                           Append(ben_vec, r.val))

\* extract_btype: the value at index (one further on the first call) and the
\* index after it
extract_btype(data, index, send_data_from_next_index) ==
    LET data_to_send_start_index == IF send_data_from_next_index THEN 1 ELSE 0
        r == recursive_bencode_decoder(
                 SubSeq(data, index + data_to_send_start_index + 1, Len(data)))
    IN  IF index + data_to_send_start_index > Len(data) THEN DecPanic
        ELSE IF r.kind # "Ok" THEN r
        ELSE DecOk(r.val, index + r.consumed + data_to_send_start_index)

MapLoop(data, index, send_data_from_next_index, ben_map) ==
    IF index >= Len(data) THEN DecPanic
    ELSE IF data[index + 1] = ch.e THEN DecOk(Bmap(ben_map), index + 1)
    ELSE LET key == extract_btype(data, index, send_data_from_next_index)
             value == extract_btype(data, key.consumed, FALSE)
         IN  IF key.kind # "Ok" THEN key
             ELSE IF value.kind # "Ok" THEN value
             ELSE MapLoop(data, value.consumed, FALSE,
                          BTreeMapInsert(ben_map, key.val, value.val))


----------------------------------------------------------------------------
(* The inputs of the decoder                                               *)
(*                                                                         *)
(* A document is a BencodeType that is written as it stands: the items of  *)
(* a Bmap in the order they are listed, an odd number of them included,    *)
(* and the bytes of a Bstring unchanged.  Bencoded writes a document.      *)

\* the longest string content, and the most elements of a list or entries of
\* a dictionary, of the generated documents
MaxStrLen == 1

MaxElems == 2

SeqsUpTo(S, n) == UNION {[1..k -> S] : k \in 0..n}

RECURSIVE Decimal(_)
Decimal(n) ==
    IF n < 10 THEN <<ch.zero + n>> ELSE Decimal(n \div 10) \o <<ch.zero + (n % 10)>>

RECURSIVE Bencoded(_), BencodedAll(_)
Bencoded(doc) ==
    IF doc.ty = "Bstring" THEN Decimal(Len(doc.s)) \o <<ch.colon>> \o doc.s
    ELSE IF doc.ty = "Bint" THEN <<ch.i>> \o Decimal(doc.n) \o <<ch.e>>
    ELSE IF doc.ty = "Bvec" THEN <<ch.l>> \o BencodedAll(doc.v) \o <<ch.e>>
    ELSE <<ch.d>> \o BencodedAll(doc.v) \o <<ch.e>>

BencodedAll(docs) ==
    IF docs = <<>> THEN <<>> ELSE Bencoded(Head(docs)) \o BencodedAll(Tail(docs))

StrA == Bstring(<<ch.a>>)

StrB == Bstring(<<ch.b>>)

\* a string of one byte that is no ASCII
StrBinary == Bstring(<<255>>)

DocAtoms ==
    {Bstring(s) : s \in SeqsUpTo({ch.a, ch.b}, MaxStrLen)}
        \cup {StrBinary, Bint(0), Bint(7), Bint(10)}

DocLists == {Bvec(v) : v \in SeqsUpTo(DocAtoms, MaxElems)}

\* dictionaries as a file may hold them: keys in any order, repeated keys,
\* a key that is no string, a last key with no value
DocMaps == {Bmap(m) : m \in SeqsUpTo({StrA, StrB, Bint(7)}, 2 * MaxElems)}

DocInner == {Bvec(<<>>), Bvec(<<StrA>>), Bmap(<<>>), Bmap(<<StrA, Bint(7)>>)}

DocNested ==
    UNION {{Bvec(<<x>>), Bvec(<<StrA, x>>), Bvec(<<x, StrA>>), Bvec(<<Bvec(<<x>>)>>),
            Bmap(<<StrA, x>>), Bmap(<<StrA, x, StrB, StrA>>),
            Bmap(<<StrA, StrA, StrB, x>>)} : x \in DocInner}

\* d3:cow3:moo4:spaml1:a1:bee
CowSpam ==
    Bmap(<<Bstring(<<99, 111, 119>>), Bstring(<<109, 111, 111>>),
           Bstring(<<115, 112, 97, 109>>), Bvec(<<StrA, StrB>>)>>)

Docs == DocAtoms \cup DocLists \cup DocMaps \cup DocNested \cup {CowSpam}

IsPrefix(x, y) == Len(x) <= Len(y) /\ SubSeq(y, 1, Len(x)) = x

ProperPrefixes(x) == {SubSeq(x, 1, k) : k \in 0..(Len(x) - 1)}

\* the places of the length prefixes of x: a digit right before a ':'
PrefixPlaces(x) ==
    {k \in 1..(Len(x) - 1) : IsAsciiDigit(x[k]) /\ x[k + 1] = ch.colon}

\* x with the length prefix at place k made a different digit
WrongLengths(x) ==
    {[x EXCEPT ![k] = c] : k \in PrefixPlaces(x), c \in {ch.zero, ch.zero + 1, ch.zero + 2}}
        \ {x}

WholeInputs == {Bencoded(doc) \o t : doc \in Docs, t \in {<<>>, <<ch.e>>, <<ch.zero + 1>>}}

TruncatedInputs == UNION {ProperPrefixes(Bencoded(doc)) : doc \in Docs}

WrongLengthInputs == UNION {WrongLengths(Bencoded(doc)) : doc \in Docs}

BadFirstByteInputs == {<<c>> \o Bencoded(doc) : c \in {ch.a, ch.e, ch.colon}, doc \in DocAtoms}

BencodeInputs ==
    WholeInputs \cup TruncatedInputs \cup WrongLengthInputs \cup BadFirstByteInputs

(* decode_bencoded_file: fs::read gave file_data_vec, and the decoder runs  *)
(* on it; one action for each branch of the decoder's first byte           *)

InitBencode ==
    /\ layout = [pc |-> "idle"]
    /\ info = [pc |-> "idle"]
    /\ DownloadIdle
    /\ FrameIdle
    /\ file_data_vec \in BencodeInputs
    /\ decoder_result = [pc |-> "read"]

Decoded ==
    LET r == recursive_bencode_decoder(file_data_vec)
    IN  /\ decoder_result' = [pc |-> "done", kind |-> r.kind, val |-> r.val,
                              consumed |-> r.consumed]
        /\ UNCHANGED <<layout, info, dlvars, fvars, file_data_vec>>

DecodeString ==
    /\ decoder_result.pc = "read"
    /\ file_data_vec # <<>> /\ IsAsciiDigit(file_data_vec[1])
    /\ Decoded

DecodeInteger ==
    /\ decoder_result.pc = "read"
    /\ file_data_vec # <<>> /\ file_data_vec[1] = ch.i
    /\ Decoded

DecodeList ==
    /\ decoder_result.pc = "read"
    /\ file_data_vec # <<>> /\ file_data_vec[1] = ch.l
    /\ Decoded

DecodeDictionary ==
    /\ decoder_result.pc = "read"
    /\ file_data_vec # <<>> /\ file_data_vec[1] = ch.d
    /\ Decoded

\* no branch takes the first byte: bail!; or there is no first byte
DecodeOther ==
    /\ decoder_result.pc = "read"
    /\ \/ file_data_vec = <<>>
       \/ /\ file_data_vec # <<>>
          /\ ~IsAsciiDigit(file_data_vec[1])
          /\ file_data_vec[1] \notin {ch.i, ch.l, ch.d}
    /\ Decoded

NextBencode ==
    \/ DecodeString
    \/ DecodeInteger
    \/ DecodeList
    \/ DecodeDictionary
    \/ DecodeOther

SpecBencode == InitBencode /\ [][NextBencode]_vars

DecodeDone == decoder_result.pc = "done"

DecodeResult ==
    [kind |-> decoder_result.kind, val |-> decoder_result.val,
     consumed |-> decoder_result.consumed]


----------------------------------------------------------------------------
(* Claims about the bencode decoder                                        *)

\* the keys of a flattened dictionary, and its values
KeysOf(m) == [k \in 1..(Len(m) \div 2) |-> m[2 * k - 1]]

ValuesOf(m) == [k \in 1..(Len(m) \div 2) |-> m[2 * k]]

\* the grammar of the specification, without the order of the keys: string
\* keys, a value for every key
RECURSIVE InGrammar(_)
InGrammar(doc) ==
    IF doc.ty \in {"Bstring", "Bint"} THEN TRUE
    ELSE IF doc.ty = "Bvec" THEN \A k \in 1..Len(doc.v) : InGrammar(doc.v[k])
    ELSE /\ Len(doc.v) % 2 = 0
         /\ \A k \in 1..Len(doc.v) : InGrammar(doc.v[k])
         /\ \A k \in 1..(Len(doc.v) \div 2) : doc.v[2 * k - 1].ty = "Bstring"

StrictlyIncreasingKeys(m) ==
    \A k \in 1..(Len(m) \div 2 - 1) : CmpString(m[2 * k - 1].s, m[2 * k + 1].s) < 0

\* the values claim C11 is about: ASCII strings, integers from 0, lists and
\* dictionaries of at least one element, the keys strictly increasing
RECURSIVE WellFormedNonEmpty(_)
WellFormedNonEmpty(doc) ==
    IF doc.ty = "Bstring" THEN \A k \in 1..Len(doc.s) : doc.s[k] < 128
    ELSE IF doc.ty = "Bint" THEN doc.n >= 0
    ELSE /\ InGrammar(doc)
         /\ doc.v # <<>>
         /\ \A k \in 1..Len(doc.v) : WellFormedNonEmpty(doc.v[k])
         /\ doc.ty = "Bmap" => StrictlyIncreasingKeys(doc.v)

WellFormedDocs ==
    {[doc |-> doc, bytes |-> Bencoded(doc)] : doc \in {x \in Docs : WellFormedNonEmpty(x)}}

\* C11: when the input starts with the encoding of a well-formed value (an
\* ASCII string, an integer from 0, a list or dictionary of at least one
\* element, nested), whatever bytes follow, the decoder returns that value
\* and the length of its encoding as the consumed count.
ThmC11_DecodesFirstValueAndItsLength ==
    DecodeDone =>
        \A w \in WellFormedDocs :
            IsPrefix(w.bytes, file_data_vec) =>
                DecodeResult = DecOk(w.doc, Len(w.bytes))

\* a dictionary that holds a list, followed by a byte that is not part of it
WitC11_NestedValueWithTrailingByte ==
    /\ DecodeDone
    /\ \E w \in WellFormedDocs :
          /\ w.doc.ty = "Bmap"
          /\ \E k \in 1..Len(w.doc.v) : w.doc.v[k].ty = "Bvec"
          /\ file_data_vec = w.bytes \o <<ch.e>>
          /\ DecodeResult = DecOk(w.doc, Len(w.bytes))

\* the 26 bytes d3:cow3:moo4:spaml1:a1:bee
CowSpamBytes ==
    <<100, 51, 58, 99, 111, 119, 51, 58, 109, 111, 111, 52, 58, 115, 112, 97, 109,
      108, 49, 58, 97, 49, 58, 98, 101, 101>>

\* C12 as stated: d3:cow3:moo4:spaml1:a1:bee decodes to {cow: "moo", spam:
\* ["a", "b"]} with 24 bytes consumed.
CexC12_CowSpamConsumes24 ==
    DecodeDone /\ file_data_vec = CowSpamBytes => DecodeResult = DecOk(CowSpam, 24)

\* C12, amended: d3:cow3:moo4:spaml1:a1:bee decodes to {cow: "moo", spam:
\* ["a", "b"]} and the consumed count is 26, the length of the input.
ThmC12_CowSpamConsumesWholeInput ==
    DecodeDone /\ file_data_vec = CowSpamBytes =>
        /\ DecodeResult = DecOk(CowSpam, 26)
        /\ DecodeResult.consumed = Len(file_data_vec)

WitC12_CowSpamDecoded ==
    /\ DecodeDone
    /\ file_data_vec = CowSpamBytes
    /\ decoder_result.kind = "Ok"
    /\ KeysOf(decoder_result.val.v) = <<Bstring(<<99, 111, 119>>),
                                        Bstring(<<115, 112, 97, 109>>)>>

\* dictionaries that are in the grammar but for the order of their keys: two
\* keys out of order, or a key twice
MisorderedDocs ==
    {doc \in Docs : doc.ty = "Bmap" /\ InGrammar(doc) /\ ~StrictlyIncreasingKeys(doc.v)}

\* C13: a dictionary whose keys are not in strictly increasing order (out of
\* order, or repeated) is never decoded to a value.
CexC13_MisorderedKeysRejected ==
    DecodeDone /\ (\E doc \in MisorderedDocs : file_data_vec = Bencoded(doc)) =>
        decoder_result.kind # "Ok"

\* the end (counted from 1) of the value of the grammar that data starts
\* with, 0 when data starts with none; RefItemsEnd reads the elements of a
\* list or the entries of a dictionary from place pos
RECURSIVE RefEnd(_), RefItemsEnd(_, _, _, _)
RefEnd(data) ==
    IF data = <<>> THEN 0
    ELSE IF IsAsciiDigit(data[1]) THEN
        LET colon == IndexOf(data, 1, ch.colon)
            digits == SubSeq(data, 1, colon - 1)
        IN  IF colon = 0 \/ \E k \in 1..Len(digits) : ~IsAsciiDigit(digits[k]) THEN 0
            ELSE IF colon + ParseDigits(digits) > Len(data) THEN 0
            ELSE colon + ParseDigits(digits)
    ELSE IF data[1] = ch.i THEN
        LET end == IndexOf(data, 2, ch.e)
            digits == SubSeq(data, 2, end - 1)
        IN  IF end = 0 \/ digits = <<>> THEN 0
            ELSE IF \E k \in 1..Len(digits) : ~IsAsciiDigit(digits[k]) THEN 0
            ELSE end
    ELSE IF data[1] = ch.l THEN RefItemsEnd(data, 2, FALSE, FALSE)
    ELSE IF data[1] = ch.d THEN RefItemsEnd(data, 2, TRUE, TRUE)
    ELSE 0

RefItemsEnd(data, pos, dict, key) ==
    IF pos > Len(data) THEN 0
    ELSE IF data[pos] = ch.e THEN (IF dict /\ ~key THEN 0 ELSE pos)
    ELSE IF dict /\ key /\ ~IsAsciiDigit(data[pos]) THEN 0
    ELSE LET n == RefEnd(SubSeq(data, pos, Len(data)))
         IN  IF n = 0 THEN 0 ELSE RefItemsEnd(data, pos + n, dict, dict /\ ~key)

\* the malformed inputs of claim C14
C14Truncated == UNION {ProperPrefixes(Bencoded(doc)) : doc \in {x \in Docs : InGrammar(x)}}

C14KeyWithoutValue ==
    {Bencoded(doc) \o t :
        doc \in {x \in DocMaps : /\ Len(x.v) % 2 = 1
                                 /\ InGrammar(Bmap(SubSeq(x.v, 1, Len(x.v) - 1)))
                                 /\ x.v[Len(x.v)].ty = "Bstring"},
        t \in {<<>>, <<ch.e>>}}

C14WrongLength ==
    {x \in UNION {WrongLengths(Bencoded(doc)) :
                     doc \in {y \in Docs : InGrammar(y) /\ y.ty \in {"Bvec", "Bmap"}}} :
        RefEnd(x) = 0}

C14BadFirstByte ==
    {x \in BencodeInputs :
        x # <<>> /\ ~IsAsciiDigit(x[1]) /\ x[1] \notin {ch.i, ch.l, ch.d}}

C14Malformed(x) ==
    \/ x \in C14Truncated
    \/ x \in C14KeyWithoutValue
    \/ x \in C14WrongLength
    \/ x \in C14BadFirstByte

\* C14: for a string shorter than its length prefix, an integer, list or
\* dictionary that is cut before its 'e', a dictionary key with no value, an
\* element of a list or dictionary with a wrong length prefix (where the
\* bytes are no value of the grammar under any reading), and a first byte
\* that starts no value, the decoder returns no value: it fails by Err or by
\* a panic.
ThmC14_MalformedInputYieldsNoValue ==
    DecodeDone /\ C14Malformed(file_data_vec) => decoder_result.kind # "Ok"

\* a list of two strings with the second length prefix too small, as in the
\* test check_recursive_bencode_decoder_vec_bad_str_fails
WitC14_WrongLengthInsideList ==
    /\ DecodeDone
    /\ file_data_vec \in C14WrongLength
    /\ file_data_vec[1] = ch.l
    /\ Cardinality(PrefixPlaces(file_data_vec)) >= 2
    /\ decoder_result.kind = "Err"


----------------------------------------------------------------------------
(* peers.rs: PeerFrameCodec, the codec of the length-prefixed frames        *)

\* const MAX = 1024 * 16: the greatest length prefix decode takes
MAX == 16384

\* the variants of PeerMsgTag in the order of their discriminants 0..8
PeerMsgTags ==
    <<"Choke", "Unchoke", "Interested", "NotInterested", "Have", "Bitfield",
      "Request", "Piece", "Cancel">>

\* item.tag as u8
TagAsU8(tag) == (CHOOSE k \in 1..Len(PeerMsgTags) : PeerMsgTags[k] = tag) - 1

\* PeerMsgTag::try_from(value), which is Ok for 0..8 only
TryFromAccepts(value) == value \in 0..(Len(PeerMsgTags) - 1)

TryFrom(value) == PeerMsgTags[value + 1]

\* u32::from_be_bytes and u32::to_be_bytes (first bytes below 128 in the
\* model, which keeps the numbers below 2^31)
from_be_bytes(bytes) ==
    ((bytes[1] * 256 + bytes[2]) * 256 + bytes[3]) * 256 + bytes[4]

to_be_bytes(n) ==
    <<(n \div 16777216) % 256, (n \div 65536) % 256, (n \div 256) % 256, n % 256>>

\* PeerMsgType::new with a fault: msg_length is the length of the data alone
PeerMsgTypeNewNoTagByte(tag, data) ==
    [msg_length |-> Len(data), tag |-> tag, data |-> data]

\* PeerMsgType::new
PeerMsgTypeNew(tag, data) ==
    [msg_length |-> Len(data) + 1, tag |-> tag, data |-> data]

\* what a call of decode returns: Ok(None), Ok(Some(item)), Err of bail!, or
\* the panic of unwrap() on an id that is no tag
NoItem == [msg_length |-> 0, tag |-> "none", data |-> <<>>]

FrameNone == [kind |-> "None", item |-> NoItem]

FrameSome(item) == [kind |-> "Some", item |-> item]

FrameErr == [kind |-> "Err", item |-> NoItem]

FramePanic == [kind |-> "Panic", item |-> NoItem]

\* src.advance(cnt)
Advance(buf, cnt) == SubSeq(buf, cnt + 1, Len(buf))

\* decode with a fault: the length marker of a frame that has not arrived
\* in full is taken out of the buffer
DecodeConsumesMarker(buf) == [ret |-> FrameNone, src |-> Advance(buf, 4)]

\* the return of decode at "the full data has not yet arrived"
DecodeNotYetArrived(buf) == [ret |-> FrameNone, src |-> buf]

RECURSIVE PeerFrameCodecDecode(_)

\* the keep-alive branch with a fault: after src.advance(4) it returns None
DecodeKeepAliveReturnsNone(buf) == [ret |-> FrameNone, src |-> Advance(buf, 4)]

\* the keep-alive branch: src.advance(4); return self.decode(src)
DecodeKeepAlive(buf) == PeerFrameCodecDecode(Advance(buf, 4))

\* Decoder::decode of PeerFrameCodec: what it returns and what it leaves in src
PeerFrameCodecDecode(buf) ==
    IF Len(buf) < 4 THEN [ret |-> FrameNone, src |-> buf]
    ELSE LET length == from_be_bytes(SubSeq(buf, 1, 4))
         IN  IF length > MAX THEN [ret |-> FrameErr, src |-> buf]
             ELSE IF Len(buf) < 4 + length THEN DecodeNotYetArrived(buf)
             ELSE IF length = 0 THEN DecodeKeepAlive(buf)
             ELSE LET msg_type == buf[5]
                  IN  IF length = 1 THEN
                          [ret |-> IF TryFromAccepts(msg_type)
                                   THEN FrameSome(PeerMsgTypeNew(TryFrom(msg_type), <<>>))
                                   ELSE FramePanic,
                           src |-> Advance(buf, 4 + length)]
                      ELSE
                          [ret |-> IF TryFromAccepts(msg_type)
                                   THEN FrameSome(PeerMsgTypeNew(TryFrom(msg_type),
                                                                 SubSeq(buf, 6, 4 + length)))
                                   ELSE FramePanic,
                           src |-> Advance(buf, 4 + length)]

\* Encoder::encode of PeerFrameCodec: what it appends to dst
PeerFrameCodecEncode(item) ==
    to_be_bytes(item.msg_length) \o <<TagAsU8(item.tag)>> \o item.data


(* The framed stream of one connection.  The peer's bytes arrive in reads   *)
(* of any size; after a read, decode is called until it returns None, as    *)
(* tokio_util's FramedRead does.  The messages the session hands to encode  *)
(* come back on the same connection when no peer has written to it.        *)

\* the longest payload of the generated messages, the most messages handed
\* to encode, and the longest stream that arrives in reads of every size
MaxPayload == 1

MaxFrames == 2

MaxChunked == 14

\* a piece message that makes a frame of exactly MAX bytes after the marker
LongestItem == PeerMsgTypeNew("Piece", [k \in 1..(MAX - 1) |-> 0])

Items ==
    {PeerMsgTypeNew(PeerMsgTags[t], data) :
        t \in 1..Len(PeerMsgTags), data \in SeqsUpTo({0, 255}, MaxPayload)}
        \cup {LongestItem}

\* streams of up to three whole frames, each a keep-alive, an unchoke or a
\* have
KeepAliveStreams ==
    LET frames == {to_be_bytes(0), to_be_bytes(1) \o <<1>>, to_be_bytes(2) \o <<4, 7>>}
    IN  frames \cup {f \o g : f, g \in frames}
               \cup {f \o g \o h : f, g, h \in frames}

\* what a peer may write: length markers around MAX with the first bytes of
\* a body, short frames whole and cut, ids that are no tag, keep-alives
PeerStreams ==
    {to_be_bytes(length) \o body :
        length \in {MAX - 1, MAX, MAX + 1, MAX + 9, MAX + 10},
        body \in SeqsUpTo({7}, 2)}
    \cup {to_be_bytes(length) \o body :
            length \in 0..2, body \in SeqsUpTo({0, 7, 9}, 3)}
    \cup {to_be_bytes(0) \o to_be_bytes(0) \o to_be_bytes(2) \o <<4, 7>>,
          to_be_bytes(0) \o to_be_bytes(1) \o <<9>>,
          to_be_bytes(0) \o to_be_bytes(MAX + 1)}
    \cup KeepAliveStreams

InitFrame ==
    /\ layout = [pc |-> "idle"]
    /\ info = [pc |-> "idle"]
    /\ DownloadIdle
    /\ BencodeIdle
    /\ src = <<>>
    /\ incoming \in PeerStreams \cup {<<>>}
    /\ wire = <<>>
    /\ decoded = [readable |-> FALSE, last |-> "none", msgs |-> <<>>]
    /\ dst = <<>>
    /\ encoded = <<>>

StreamOpen == decoded.last \notin {"Err", "Panic"}

\* framed.send(item): encode appends the frame to the write buffer
FrameEncode ==
    /\ incoming = <<>> /\ src = <<>>
    /\ decoded.last = "none" /\ ~decoded.readable
    /\ Len(encoded) < MaxFrames
    \* the longest message of the model is sent alone
    /\ encoded # <<>> => encoded[1] # LongestItem
    /\ \E item \in (IF encoded = <<>> THEN Items ELSE Items \ {LongestItem}) :
          /\ dst' = dst \o PeerFrameCodecEncode(item)
          /\ encoded' = Append(encoded, item)
    /\ UNCHANGED <<layout, info, dlvars, bvars, src, incoming, wire, decoded>>

\* the write buffer is flushed to the connection
FrameFlush ==
    /\ dst # <<>>
    /\ incoming' = incoming \o dst
    /\ dst' = <<>>
    /\ UNCHANGED <<layout, info, dlvars, bvars, src, wire, decoded, encoded>>

\* a read of the socket appends the next bytes of the stream to src
FrameRead ==
    /\ StreamOpen
    /\ incoming # <<>>
    /\ \E cnt \in 1..Len(incoming) :
          /\ Len(incoming) > MaxChunked => cnt = Len(incoming)
          /\ src' = src \o SubSeq(incoming, 1, cnt)
          /\ wire' = wire \o SubSeq(incoming, 1, cnt)
          /\ incoming' = Advance(incoming, cnt)
    /\ decoded' = [decoded EXCEPT !.readable = TRUE]
    /\ UNCHANGED <<layout, info, dlvars, bvars, dst, encoded>>

\* framed.next(): one call of decode on the read buffer
FrameDecode ==
    /\ StreamOpen
    /\ decoded.readable
    /\ LET r == PeerFrameCodecDecode(src)
       IN  /\ src' = r.src
           /\ decoded' = [readable |-> r.ret.kind = "Some",
                          last |-> r.ret.kind,
                          msgs |-> IF r.ret.kind = "Some"
                                   THEN Append(decoded.msgs, r.ret.item)
                                   ELSE decoded.msgs]
    /\ UNCHANGED <<layout, info, dlvars, bvars, incoming, wire, dst, encoded>>

NextFrame ==
    \/ FrameEncode
    \/ FrameFlush
    \/ FrameRead
    \/ FrameDecode

SpecFrame == InitFrame /\ [][NextFrame]_vars

----------------------------------------------------------------------------
(* Claims about the frame codec                                            *)

\* the length marker at the front of the read buffer
Marker == from_be_bytes(SubSeq(src, 1, 4))

\* a step that is a call of decode
IsDecodeStep == decoded.readable /\ incoming' = incoming /\ decoded' # decoded

\* C15: decode fails for a length prefix above 16 KiB + 9 = 16393 and for no
\* prefix up to 16393; a piece message of a full 16 KiB block, prefix 16393,
\* is taken.
CexC15_LimitIs16KiBPlus9 ==
    /\ decoded.last = "Err" => Len(src) >= 4 /\ Marker > 16 * 1024 + 9
    /\ (Len(src) >= 4 /\ Marker > 16 * 1024 + 9 /\ ~decoded.readable
            /\ decoded.last # "none")
          => decoded.last = "Err"

\* C16: a call of decode on a buffer of fewer than 4 bytes, or of a length
\* marker L <= MAX with fewer than 4 + L bytes, returns None and leaves the
\* buffer as it is; a call on a buffer that starts with the whole frame (L
\* from 1, the id a tag) returns that frame and takes its 4 + L bytes out.
ThmC16_PartialFrameIsLeftInBuffer ==
    [][IsDecodeStep =>
         /\ (Len(src) < 4 \/ (Marker <= MAX /\ Len(src) < 4 + Marker)) =>
                /\ decoded'.last = "None"
                /\ decoded'.msgs = decoded.msgs
                /\ src' = src
         /\ (Len(src) >= 4 /\ Marker \in 1..MAX /\ Len(src) >= 4 + Marker
                 /\ src[5] \in 0..8) =>
                /\ decoded'.last = "Some"
                /\ decoded'.msgs =
                      Append(decoded.msgs,
                             [msg_length |-> Marker, tag |-> PeerMsgTags[src[5] + 1],
                              data |-> SubSeq(src, 6, 4 + Marker)])
                /\ src' = SubSeq(src, 5 + Marker, Len(src))]_vars

\* decode has returned None on a buffer that holds a marker and a part of
\* the body
WitC16_MarkerAndPartOfBody ==
    /\ decoded.last = "None" /\ ~decoded.readable
    /\ Len(src) > 4
    /\ Marker \in 1..MAX
    /\ Len(src) < 4 + Marker

\* the id table of the message frame
IdTable ==
    [Choke |-> 0, Unchoke |-> 1, Interested |-> 2, NotInterested |-> 3, Have |-> 4,
     Bitfield |-> 5, Request |-> 6, Piece |-> 7, Cancel |-> 8]

\* C17: encode appends the 4-byte big-endian 1 + payload length, the id of
\* the tag and the payload; a call of decode on exactly the bytes of one
\* encoded message (its frame within the limit MAX of decode) returns the
\* same tag and payload and leaves the buffer empty.
ThmC17_FrameRoundTrip ==
    [][/\ encoded' # encoded =>
            LET item == encoded'[Len(encoded')]
                frame == SubSeq(dst', Len(dst) + 1, Len(dst'))
            IN  /\ Len(frame) = 5 + Len(item.data)
                /\ \A k \in 1..Len(frame) : frame[k] \in 0..255
                /\ ((frame[1] * 256 + frame[2]) * 256 + frame[3]) * 256 + frame[4]
                      = 1 + Len(item.data)
                /\ frame[5] = IdTable[item.tag]
                /\ SubSeq(frame, 6, Len(frame)) = item.data
       /\ IsDecodeStep =>
            \A k \in 1..Len(encoded) :
                src = PeerFrameCodecEncode(encoded[k]) =>
                    /\ decoded'.last = "Some"
                    /\ decoded'.msgs[Len(decoded'.msgs)].tag = encoded[k].tag
                    /\ decoded'.msgs[Len(decoded'.msgs)].data = encoded[k].data
                    /\ Len(decoded'.msgs) = Len(decoded.msgs) + 1
                    /\ src' = <<>>]_vars

\* a piece message with a payload and one more message were encoded, and both
\* came back from decode
WitC17_EncodedMessagesCameBack ==
    /\ Len(encoded) = 2
    /\ decoded.msgs = encoded
    /\ src = <<>> /\ incoming = <<>> /\ dst = <<>>
    /\ encoded[1].tag = "Piece" /\ encoded[1].data # <<>>
    /\ encoded[2].tag = "Choke"


----------------------------------------------------------------------------
(* Further claims about start_download                                     *)

\* C18: a session has a request outstanding only while the remote has
\* unchoked it: no request is sent before an unchoke message has come, in
\* particular not when the message after interested is no unchoke.
CexC18_RequestOnlyWhileUnchoked ==
    \A p \in Peers : sess[p].pc = "await" => remote[p].unchoked

\* C19: a session requests piece i only from a remote whose have-set, as its
\* bitfield gave it, holds i; a popped piece the remote does not have is not
\* requested from it.
CexC19_RequestOnlyPiecesRemoteHas ==
    \A p \in Peers :
        \A k \in RequestsSent(p) : sent[p][k].index \in remote[p].have

\* C20: when the tracker answers with a failure response, start_download
\* returns an error and no peer session has been spawned.
CexC20_TrackerFailureIsError ==
    (main.pc = "returned" /\ main.tracker = "Failure") =>
        /\ main.result = "Err"
        /\ \A p \in Peers : sess[p].pc = "unspawned"

\* every slice of piece i was handed to seek_write, and seek_write wrote it
Written(i) ==
    \A k \in 1..Len(SegmentsOf(i)) :
        \E w \in persisted : w.piece_index = i /\ w.seg = k /\ w.written

\* the bytes of file f in the content the manifest describes
ContentOfFile(f) ==
    SubSeq(TorrentContent, FileStart(TorrentFiles, f) + 1,
           FileStart(TorrentFiles, f) + TorrentFiles[f])

\* C21: whichever sessions download the pieces and in whichever order they
\* complete, a piece that was verified and written keeps its content on the
\* disk from then on (no write of another piece goes over its ranges), and
\* once every piece was written each file holds its range of the content.
ThmC21_FilesHoldContentInAnyOrder ==
    main.pc # "idle" =>
        /\ \A i \in Pieces : Written(i) => OnDiskBytes(disk, i) = ContentOfPiece(i)
        /\ (\A i \in Pieces : Written(i)) =>
               \A f \in 1..Len(TorrentFiles) : disk[f] = ContentOfFile(f)

\* the disk held no piece at start-up, one session has downloaded the last
\* piece and another the first, every piece was written and start_download
\* has returned
WitC21_TwoSessionsWroteAllPieces ==
    /\ main.pc = "returned"
    /\ main.good_at_start = {}
    /\ \A i \in Pieces : Written(i)
    /\ \E p, q \in Peers :
          /\ p # q
          /\ \A k \in RequestsSent(p) : sent[p][k].index = 0
          /\ \A k \in RequestsSent(q) : sent[q][k].index = total_pieces_to_download - 1
          /\ RequestsSent(p) # {} /\ RequestsSent(q) # {}

\* the session of peer p waits for a frame of its peer
AwaitsPeer(p) == sess[p].pc \in {"first_frame", "second_frame", "await"}

\* C22: no session waits for a frame of its peer forever, and the wait of
\* start_download for its sessions ends: a peer that sends no first message,
\* no unchoke or no piece message gets its session closed.
CexC22_SilentPeerSessionIsClosed ==
    /\ \A p \in Peers : []<>(~AwaitsPeer(p))
    /\ (main.pc = "join") ~> (main.pc = "returned")

\* the sessions that were spawned and have not ended
ActiveSessions == {p \in Peers : sess[p].pc \notin {"unspawned", "finished", "panicked"}}

\* the concurrency bound of the claim (50 by default), in the model one
\* below the number of peers a tracker's answer may hold
ConcurrencyBound == NumPeers - 1

\* C23: at no time are more sessions active than the concurrency bound,
\* however many peers the tracker's answer holds.
CexC23_ActiveSessionsWithinBound ==
    Cardinality(ActiveSessions) <= ConcurrencyBound

\* C24: the step at which the tracker request fails with a transport error
\* for the first time does not end start_download: the request is tried
\* again after a wait.
CexC24_TransportErrorIsRetried ==
    [][(main.pc = "tracker" /\ main.tracker = "none"
            /\ main'.tracker = "TransportError")
          => main'.pc # "returned"]_vars

\* the request messages the session of peer p has sent for piece i, in the
\* order it sent them
RequestsFor(p, i) ==
    LET IsRequestFor(m) == m.tag = "Request" /\ m.index = i
    IN SelectSeq(sent[p], IsRequestFor)

\* the number of bytes the first n of the requests ask for
RequestedLen(reqs, n) == SumSeq([k \in 1..n |-> reqs[k].length])

\* C25: the requests of a session for a piece of length L start at begin 0,
\* each begins where the one before ended and asks for min(B, L - begin)
\* bytes, more than 0 and at most 16 KiB, B being the fixed block size; so
\* they cover [0, L) once, without gap or overlap.  The loop sends a further
\* request exactly while fewer than L bytes are requested, and the piece
\* goes on to the write phase with exactly L bytes requested.
ThmC25_RequestsCoverThePieceOnce ==
    main.pc # "idle" =>
        \A p \in Peers : \A i \in Pieces :
            LET reqs == RequestsFor(p, i)
                L == PieceHi(i, TorrentPieceLength, torrent_data_len)
                        - PieceLo(i, TorrentPieceLength)
                holds == sess[p].piece_index = i
            IN  /\ \A k \in 1..Len(reqs) :
                      /\ reqs[k].begin = RequestedLen(reqs, k - 1)
                      /\ reqs[k].length = Min(max_request_block_size, L - reqs[k].begin)
                      /\ 0 < reqs[k].length
                      /\ reqs[k].length <= max_request_block_size
                      /\ max_request_block_size <= 16 * 1024
                /\ RequestedLen(reqs, Len(reqs)) <= L
                /\ (holds /\ sess[p].pc = "block") =>
                      (ENABLED SendRequest(p) <=> RequestedLen(reqs, Len(reqs)) < L)
                /\ (holds /\ sess[p].pc = "block") =>
                      (ENABLED Verify(p) <=> RequestedLen(reqs, Len(reqs)) = L)
                /\ (holds /\ sess[p].pc \in {"lock", "write"}) =>
                      RequestedLen(reqs, Len(reqs)) = L

\* one session has requested the short last piece with one request and then
\* the first piece with two, and is writing the first piece
WitC25_TwoPiecesRequestedInBlocks ==
    /\ main.pc # "idle"
    /\ \E p \in Peers :
          /\ sess[p].pc = "write" /\ sess[p].piece_index = 0
          /\ Len(RequestsFor(p, 0)) = 2
          /\ RequestsFor(p, 0)[2].begin = max_request_block_size
          /\ Len(RequestsFor(p, total_pieces_to_download - 1)) = 1
          /\ RequestsFor(p, total_pieces_to_download - 1)[1].length
                < max_request_block_size

\* the request the session of peer p has sent last, the one that is
\* outstanding while the session waits for or holds new_frame
OutstandingRequest(p) == sent[p][Len(sent[p])]

\* C26: a step that makes the piece buffer longer by the block of new_frame
\* is taken only with a piece message whose index and begin are those of the
\* outstanding request, and puts the block at byte offset begin of the piece.
CexC26_OnlyMatchingPieceMessageIsAppended ==
    [][\A p \in Peers :
          (sess[p].pc = "got"
              /\ Len(sess'[p].piece_data) > Len(sess[p].piece_data)) =>
                /\ sess[p].new_frame.index = OutstandingRequest(p).index
                /\ sess[p].new_frame.begin = OutstandingRequest(p).begin
                /\ Len(sess[p].piece_data) = sess[p].new_frame.begin]_vars

\* C27: a have message that comes while the session waits for the answer
\* to a request does not close or abort the session: the step that follows
\* its arrival does not end the task.
CexC27_HaveDoesNotAbortTheSession ==
    [][\A p \in Peers :
          (sess[p].pc = "got" /\ sess[p].new_frame.tag = "Have") =>
              sess'[p].pc # "panicked"]_vars

\* C28: a session that is in the write phase of a piece, between two of
\* its positional writes, does not hold the lock of the file-handle map.
CexC28_WritesRunOutsideTheLock ==
    \A p \in Peers : sess[p].pc = "write" => file_handle_mapping.holder # p

\* C29: a failure inside one session ends that session only: the lock of
\* the file-handle map can still be taken by the others, and no session ends
\* because of a failure that happened in another one.
CexC29_FailureEndsOnlyItsSession ==
    /\ ~file_handle_mapping.poisoned
    /\ \A p \in Peers : sess[p].cause # "PoisonedLock"

----------------------------------------------------------------------------
(* Further claims about the frame codec                                    *)

\* the bytes start with a whole frame: a length marker and as many bytes
WholeFrameAt(bytes) ==
    /\ Len(bytes) >= 4
    /\ Len(bytes) >= 4 + from_be_bytes(SubSeq(bytes, 1, 4))

\* the bytes are whole frames one after the other, each a keep-alive or a
\* message with an id of the table, none longer than decode takes
RECURSIVE StreamOfFrames(_)
StreamOfFrames(bytes) ==
    \/ bytes = <<>>
    \/ /\ WholeFrameAt(bytes)
       /\ LET length == from_be_bytes(SubSeq(bytes, 1, 4))
          IN  /\ length <= MAX
              /\ length > 0 => \E t \in DOMAIN IdTable : IdTable[t] = bytes[5]
              /\ StreamOfFrames(Advance(bytes, 4 + length))

\* the messages of the whole frames at the front of the bytes, in the order
\* of the bytes; a keep-alive is no message
RECURSIVE MessagesOf(_)
MessagesOf(bytes) ==
    IF ~WholeFrameAt(bytes) THEN <<>>
    ELSE LET length == from_be_bytes(SubSeq(bytes, 1, 4))
             message == [msg_length |-> length,
                         tag |-> CHOOSE t \in DOMAIN IdTable : IdTable[t] = bytes[5],
                         data |-> SubSeq(bytes, 6, 4 + length)]
         IN  (IF length = 0 THEN <<>> ELSE <<message>>)
                 \o MessagesOf(Advance(bytes, 4 + length))

\* what is left of the bytes after the whole frames at their front
RECURSIVE RestOf(_)
RestOf(bytes) ==
    IF ~WholeFrameAt(bytes) THEN bytes
    ELSE RestOf(Advance(bytes, 4 + from_be_bytes(SubSeq(bytes, 1, 4))))

\* the bytes the calls of decode have taken out of the read buffer
Consumed == SubSeq(wire, 1, Len(wire) - Len(src))

\* C30: on a stream of whole frames, keep-alives among them, that arrives
\* in reads of any sizes, decode never fails; what its calls have taken out
\* of the buffer are whole frames, 4 bytes for a keep-alive and 4 + length
\* for a message, and the messages delivered are the messages of those
\* frames, each once and in their order; when decode has returned None every
\* whole frame that has arrived is taken, so at the end of the stream the
\* delivered messages are the non-keep-alive frames of the stream whatever
\* the reads were.
ThmC30_ChunkedStreamDeliversItsMessages ==
    StreamOfFrames(wire \o incoming) =>
        /\ decoded.last \notin {"Err", "Panic"}
        /\ src = SubSeq(wire, Len(wire) - Len(src) + 1, Len(wire))
        /\ StreamOfFrames(Consumed)
        /\ decoded.msgs = MessagesOf(Consumed)
        /\ ~decoded.readable => src = RestOf(wire) /\ decoded.msgs = MessagesOf(wire)
        /\ (~decoded.readable /\ incoming = <<>>) => src = <<>>

\* a message and a keep-alive have been taken, decode has returned None on
\* the first bytes of the next frame's marker, and more of the stream is to
\* come
WitC30_ReadEndsInsideMarkerAfterKeepAlive ==
    /\ StreamOfFrames(wire \o incoming)
    /\ incoming # <<>>
    /\ ~decoded.readable /\ decoded.last = "None"
    /\ Len(decoded.msgs) = 1
    /\ Len(src) \in 1..3
    /\ Len(Consumed) = 4 + decoded.msgs[1].msg_length + 4

----------------------------------------------------------------------------
(* Further claims about the bencode decoder                                *)

\* the empty list and the empty dictionary, alone and inside another list
\* or dictionary
EmptyContainers ==
    {Bvec(<<>>), Bmap(<<>>)}
        \cup UNION {{Bvec(<<x>>), Bvec(<<StrA, x>>), Bmap(<<StrA, x>>)} :
                       x \in {Bvec(<<>>), Bmap(<<>>)}}

\* C31: le and de are decoded, to the empty list and the empty dictionary
\* with 2 bytes consumed, and so are a list and a dictionary that hold them.
CexC31_EmptyListAndDictionaryDecode ==
    DecodeDone =>
        \A doc \in EmptyContainers :
            file_data_vec = Bencoded(doc) =>
                DecodeResult = DecOk(doc, Len(Bencoded(doc)))

\* C32: the decoded byte string holds the input bytes after the ':' as they
\* are, whatever their values, as many as the length prefix says.
CexC32_ByteStringKeepsEveryByte ==
    DecodeDone =>
        \A doc \in {x \in DocAtoms : x.ty = "Bstring"} :
            file_data_vec = Bencoded(doc) =>
                /\ decoder_result.kind = "Ok"
                /\ decoder_result.val.s = doc.s
                /\ decoder_result.consumed = Len(Bencoded(doc))

----------------------------------------------------------------------------
(* Claims about the end of start_download                                  *)

\* the frame that answers the outstanding request of peer p's session with
\* the requested bytes
RightAnswer(p) ==
    FrameOf("Piece", sess[p].piece_index, sess[p].piece_downloaded_len,
            BlockOfContent(sess[p].piece_index, sess[p].piece_downloaded_len,
                           ThisBlockLen(sess[p])))

\* the tracker has given a peer or more, every peer connects and answers every
\* request with the right block, and the file system opens and writes what
\* it is asked to
AllGoesWell ==
    /\ main.tracker \in {"none", "Success"}
    /\ main.pc \in {"join", "returned"} => main.peers # {}
    /\ \A p \in Peers :
          /\ sess[p].pc = "got" => sess[p].new_frame = RightAnswer(p)
          /\ sess[p].pc = "panicked" =>
                sess[p].cause \in {"PieceHashMismatch", "PieceLengthMismatch"}
    /\ \A w \in persisted : w.written

\* the missing-piece set is empty, every session has left its loop, and
\* start_download has returned with every piece that was missing verified
\* and written
DownloadComplete ==
    /\ main.pc = "returned" /\ main.result = "Ok" /\ main.joined
    /\ Missing = {}
    /\ \A p \in main.peers : sess[p].pc = "finished"
    /\ \A i \in main.initial_missing : Written(i) /\ OnDiskBytes(disk, i) = ContentOfPiece(i)

\* C33: with fair scheduling, when every peer completes the handshake,
\* sends its first frames and answers every request with the right block,
\* the run reaches the state in which the missing-piece set is empty, every
\* session has left its loop and start_download has returned with every
\* missing piece verified and written.
ThmC33_CooperativePeersCompleteTheDownload ==
    ([]AllGoesWell) => <>DownloadComplete

\* all went well to the end, and each of two sessions has downloaded a piece
WitC33_CompletedByTwoSessions ==
    /\ AllGoesWell
    /\ DownloadComplete
    /\ main.initial_missing = Pieces
    /\ \A p \in Peers : RequestsSent(p) # {}

\* the sessions that hold a popped piece and are still running
Holders(i) ==
    {p \in Peers : sess[p].pc \in {"block", "await", "got", "lock", "write"}
                   /\ sess[p].piece_index = i}

\* C34: in every interleaving a piece index is held by one session at most
\* and is not in the missing-piece set while it is held; a piece whose
\* every slice has been handed to seek_write is not in the set, is not held
\* by a session that requests or waits to write, and no two sessions have
\* sent requests for the same piece.
ThmC34_PieceIsWorkedOnByOneSession ==
    main.pc # "idle" =>
        \A i \in Pieces :
            /\ Cardinality(Holders(i)) <= 1
            /\ Holders(i) # {} => i \notin Missing
            /\ Completed(i) =>
                  /\ i \notin Missing
                  /\ \A p \in Holders(i) : sess[p].pc = "write"
            /\ Cardinality({p \in Peers : RequestsFor(p, i) # <<>>}) <= 1
            /\ Cardinality({k \in 1..Len(pieces_to_download) :
                               pieces_to_download[k] = i}) <= 1

\* one session has handed the last slice of its piece to seek_write and
\* still holds the lock while the other waits for a block of another piece
WitC34_TwoSessionsHoldTwoPieces ==
    \E p, q \in Peers :
        /\ sess[p].pc = "write" /\ Completed(sess[p].piece_index)
        /\ sess[q].pc = "await"
        /\ sess[q].piece_index # sess[p].piece_index
        /\ Missing = {}

----------------------------------------------------------------------------
(* Further claims about decode and about the writes                        *)

\* the buffer starts with a whole frame that has an id byte, and the id is
\* no message id
WholeFrameWithUnknownId(buf) ==
    /\ Len(buf) >= 5
    /\ from_be_bytes(SubSeq(buf, 1, 4)) \in 1..MAX
    /\ Len(buf) >= 4 + from_be_bytes(SubSeq(buf, 1, 4))
    /\ ~TryFromAccepts(buf[5])

\* C35: decode is total: whatever the buffer holds, the call returns None,
\* a message or an error value, and no call ends in a panic; a whole frame
\* whose id byte is outside 0..8 gives an error value.
CexC35_DecodeReturnsForEveryBuffer ==
    /\ decoded.last # "Panic"
    /\ PeerFrameCodecDecode(src).ret.kind \in {"None", "Some", "Err"}
    /\ WholeFrameWithUnknownId(src) => PeerFrameCodecDecode(src).ret.kind = "Err"

\* a slice of piece i was handed to seek_write and the write failed
WriteFailed(i) == \E w \in persisted : w.piece_index = i /\ ~w.written

\* C36: a failed positional write is not passed over: the piece it belongs
\* to is still held by the session that writes it, is back in the
\* missing-piece set, or has ended its session with an error.
CexC36_FailedWriteKeepsThePieceMissing ==
    \A i \in Pieces :
        (main.pc # "idle" /\ WriteFailed(i)) =>
            \/ i \in Missing
            \/ InFlight(i)
            \/ \E p \in Peers : sess[p].pc = "panicked" /\ sess[p].piece_index = i

============================================================================
